---- MODULE Spec2Model ----
(***************************************************************************)
(* Verification model of the Sciama Slurm Connect extension                *)
(* (src/unnamed/part_000): the scheduler-report parsers, the cluster-info  *)
(* fetcher, the launch-command and alias builders and the SSH overlay      *)
(* writer.                                                                 *)
(*                                                                         *)
(* Text is modelled as a sequence of one-character strings, so that        *)
(* splitting, trimming, pattern matching and number conversion are         *)
(* computed the way the code computes them.                                *)
(***************************************************************************)
EXTENDS Naturals, Integers, Sequences, FiniteSets, TLC

VARIABLES
    pc,         \* position of the operation under check
    input,      \* the arguments the operation was called with
    result,     \* the value the operation returned (NoResult before it returns)
    cmdIdx,     \* fetchClusterInfo: index of the next candidate command
    lastInfo,   \* fetchClusterInfo: the local lastInfo
    execLog,    \* fetchClusterInfo: outcome of each remote execution so far
    files,      \* file system: path -> content written
    runs,       \* connectCommand: the invocations in progress (position, cfg, locals)
    settings,   \* the Remote-SSH settings (remote.SSH.*): key -> value
    cache       \* globalState 'sciamaSlurm.clusterInfoCache': host -> entry

vars == <<pc, input, result, cmdIdx, lastInfo, execLog, files, runs, settings, cache>>

(***************************************************************************)
(* Bounds of the model.                                                    *)
(***************************************************************************)
MaxTokens == 2      \* GRES tokens per descriptor
MaxLines == 2       \* rows per scheduler report

(***************************************************************************)
(* Characters and text helpers (JavaScript String methods).                *)
(***************************************************************************)
DigitChars == <<"0", "1", "2", "3", "4", "5", "6", "7", "8", "9">>
Digits == {DigitChars[i] : i \in 1..10}
Whitespace == {" ", "\t", "\n", "\r"}
LowerChars == {"a", "b", "c", "d", "e", "f", "g", "h", "i", "j", "k", "l", "m",
               "n", "o", "p", "q", "r", "s", "t", "u", "v", "w", "x", "y", "z"}
UpperChars == {"A", "B", "C", "D", "E", "F", "G", "H", "I", "J", "K", "L", "M",
               "N", "O", "P", "Q", "R", "S", "T", "U", "V", "W", "X", "Y", "Z"}

\* The text of a string literal, one character per element.
Chars(str) == [i \in 1..Len(str) |-> SubSeq(str, i, i)]

\* The value `undefined` of an optional string.
Undefined == <<"undefined">>
\* !value for an optional string: undefined and '' are falsy.
Falsy(s) == s = Undefined \/ s = <<>>

NoResult == [kind |-> "none"]

MaxOf(a, b) == IF a >= b THEN a ELSE b

RECURSIVE SetMax(_)
SetMax(S) == IF S = {} THEN 0
             ELSE LET x == CHOOSE y \in S : TRUE IN MaxOf(x, SetMax(S \ {x}))

\* Array.prototype.filter(Boolean) on an array of strings.
FilterBoolean(seq) == SelectSeq(seq, LAMBDA x : x # <<>>)

\* The k-th smallest element of a set of numbers.
Kth(S, k) == CHOOSE x \in S : Cardinality({y \in S : y < x}) = k - 1

\* The segments of s between the separator positions seps.
Segments(s, seps) ==
    [k \in 1..(Cardinality(seps) + 1) |->
        SubSeq(s,
               IF k = 1 THEN 1 ELSE Kth(seps, k - 1) + 1,
               IF k = Cardinality(seps) + 1 THEN Len(s) ELSE Kth(seps, k) - 1)]

\* String.prototype.split(c) for a one-character separator.
Split(s, c) == Segments(s, {i \in 1..Len(s) : s[i] = c})

\* String.prototype.split(/\r?\n/): a "\r" right before a "\n" belongs to the
\* separator.
SplitLines(s) ==
    LET seps == {i \in 1..Len(s) : s[i] = "\n"}
        segs == Segments(s, seps)
    IN [k \in 1..Len(segs) |->
           IF k <= Cardinality(seps) /\ segs[k] # <<>> /\ segs[k][Len(segs[k])] = "\r"
           THEN SubSeq(segs[k], 1, Len(segs[k]) - 1)
           ELSE segs[k]]

\* String.prototype.trim().
Trim(s) ==
    LET keep == {i \in 1..Len(s) : s[i] \notin Whitespace}
    IN IF keep = {} THEN <<>>
       ELSE SubSeq(s, CHOOSE i \in keep : \A j \in keep : i <= j,
                      CHOOSE i \in keep : \A j \in keep : j <= i)

\* String.prototype.includes(sub).
Includes(s, sub) ==
    \E i \in 0..(Len(s) - Len(sub)) : SubSeq(s, i + 1, i + Len(sub)) = sub

RECURSIVE Join(_, _)
\* Array.prototype.join(sep).
Join(seq, sep) ==
    IF seq = <<>> THEN <<>>
    ELSE IF Len(seq) = 1 THEN seq[1]
    ELSE seq[1] \o sep \o Join(Tail(seq), sep)

\* arr.map(f)
Map(seq, f(_)) == [i \in 1..Len(seq) |-> f(seq[i])]

\* /^\d+$/.test(s)
AllDigits(s) == s # <<>> /\ \A i \in 1..Len(s) : s[i] \in Digits
\* /^\d/.test(s)
StartsWithDigit(s) == s # <<>> /\ s[1] \in Digits

DigitVal(c) == (CHOOSE i \in 1..10 : DigitChars[i] = c) - 1
RECURSIVE ToNum(_)
\* Number(s) for an all-digit string.
ToNum(s) == IF s = <<>> THEN 0
            ELSE ToNum(SubSeq(s, 1, Len(s) - 1)) * 10 + DigitVal(s[Len(s)])

RECURSIVE ToStr(_)
\* String(n) for a non-negative integer.
ToStr(n) == IF n < 10 THEN <<DigitChars[n + 1]>>
            ELSE ToStr(n \div 10) \o <<DigitChars[(n % 10) + 1]>>

\* value.match(/\d+/): the first maximal run of digits, <<>> when there is none.
FirstDigitRun(s) ==
    IF \A i \in 1..Len(s) : s[i] \notin Digits THEN <<>>
    ELSE LET a == CHOOSE i \in 1..Len(s) :
                      s[i] \in Digits /\ \A j \in 1..(i - 1) : s[j] \notin Digits
             b == CHOOSE k \in a..Len(s) :
                      /\ \A j \in a..k : s[j] \in Digits
                      /\ (k = Len(s) \/ s[k + 1] \notin Digits)
         IN SubSeq(s, a, b)

\* parseNumericField
parseNumericField(value) == ToNum(FirstDigitRun(value))

\* Whether a "(...)" group (within one line) starts at position i of s.
OpensGroup(s, i) ==
    /\ s[i] = "("
    /\ \E j \in (i + 1)..Len(s) :
           s[j] = ")" /\ \A k \in (i + 1)..(j - 1) : s[k] \notin {")", "\n", "\r"}

RECURSIVE StripParensFrom(_, _)
StripParensFrom(s, i) ==
    LET opens == {k \in i..Len(s) : OpensGroup(s, k)} IN
    IF opens = {} THEN SubSeq(s, i, Len(s))
    ELSE LET o == CHOOSE k \in opens : \A m \in opens : k <= m
             j == CHOOSE k \in (o + 1)..Len(s) :
                      s[k] = ")" /\ \A m \in (o + 1)..(k - 1) : s[m] # ")"
         IN SubSeq(s, i, o - 1) \o StripParensFrom(s, j + 1)
\* token.replace(/\(.*?\)/g, '')
StripParens(s) == StripParensFrom(s, 1)

\* s.replace(/\*/g, '')
StripStars(s) == SelectSeq(s, LAMBDA c : c # "*")

(***************************************************************************)
(* parseGresInfo                                                           *)
(***************************************************************************)
S_gpu == Chars("gpu")

EmptyTypes == [t \in {} |-> 0]
EmptyGres == [gpuMax |-> 0, gpuTypes |-> EmptyTypes]

\* gpuTypes[key] || 0
TypeCount(types, key) == IF key \in DOMAIN types THEN types[key] ELSE 0

\* gpuTypes[key] = value
SetType(types, key, value) ==
    [t \in (DOMAIN types) \cup {key} |-> IF t = key THEN value ELSE types[t]]

\* The parts of one token: parenthetical groups removed, split on ':',
\* each part trimmed, empty parts dropped.
GresParts(token) == FilterBoolean(Map(Split(StripParens(token), ":"), Trim))

\* The type label a token resolves to.
GresType(parts) ==
    IF Len(parts) = 2 THEN (IF AllDigits(parts[2]) THEN <<>> ELSE parts[2])
    ELSE IF Len(parts) >= 3 THEN parts[2]
    ELSE <<>>

\* The count a token resolves to.
GresCount(parts) ==
    IF Len(parts) = 2 THEN (IF AllDigits(parts[2]) THEN ToNum(parts[2]) ELSE 0)
    ELSE IF Len(parts) >= 3 THEN (IF AllDigits(parts[3]) THEN ToNum(parts[3]) ELSE 0)
    ELSE 0

\* The tokens of a descriptor.
GresTokens(raw) == FilterBoolean(Map(Split(raw, ","), Trim))

\* GresStep with the per-type count summed instead of maximised.
GresStepSum(acc, token) ==
    IF ~Includes(token, S_gpu) THEN acc
    ELSE LET parts == GresParts(token) IN
         IF Len(parts) = 0 \/ parts[1] # S_gpu THEN acc
         ELSE LET type == GresType(parts)
                  count == GresCount(parts)
              IN IF count <= 0 THEN acc
                 ELSE [gpuMax |-> MaxOf(acc.gpuMax, count),
                       gpuTypes |-> SetType(acc.gpuTypes, type,
                                            TypeCount(acc.gpuTypes, type) + count)]

\* One iteration of the token loop: skip the token or fold it into result.
GresStep(acc, token) ==
    IF ~Includes(token, S_gpu) THEN acc
    ELSE LET parts == GresParts(token) IN
         IF Len(parts) = 0 \/ parts[1] # S_gpu THEN acc
         ELSE LET type == GresType(parts)
                  count == GresCount(parts)
              IN IF count <= 0 THEN acc
                 ELSE [gpuMax |-> MaxOf(acc.gpuMax, count),
                       gpuTypes |-> SetType(acc.gpuTypes, type,
                                            MaxOf(TypeCount(acc.gpuTypes, type), count))]

RECURSIVE GresFold(_, _, _)
GresFold(acc, tokens, i) ==
    IF i > Len(tokens) THEN acc ELSE GresFold(GresStep(acc, tokens[i]), tokens, i + 1)

parseGresInfo(raw) ==
    IF raw = <<>> THEN EmptyGres ELSE GresFold(EmptyGres, GresTokens(raw), 1)

(***************************************************************************)
(* parsePartitionInfoOutput                                                *)
(***************************************************************************)
EmptyInfo == [partitions |-> <<>>, defaultPartition |-> Undefined]

\* fields[i] || ''
FieldAt(fields, i) == IF i <= Len(fields) THEN fields[i] ELSE <<>>

\* line.split('|').map((value) => value.trim())
LineFields(line) == Map(Split(line, "|"), Trim)

\* output.split(/\r?\n/).map((line) => line.trim()).filter(Boolean)
ReportLines(output) == FilterBoolean(Map(SplitLines(output), Trim))

\* CpuText taking the segment before the first '/' instead of the last one.
CpuTextFirstSegment(cpusRaw) ==
    IF Includes(cpusRaw, <<"/">>)
    THEN LET segs == Split(cpusRaw, "/") IN segs[1]
    ELSE cpusRaw

\* cpusRaw.includes('/') ? cpusRaw.split('/').pop() || '' : cpusRaw
CpuText(cpusRaw) ==
    IF Includes(cpusRaw, <<"/">>)
    THEN LET segs == Split(cpusRaw, "/") IN segs[Len(segs)]
    ELSE cpusRaw

\* The per-row values computed before the loop over the partition names.
RowValues(fields) ==
    LET field1 == FieldAt(fields, 2)
        isField1Numeric == StartsWithDigit(field1)
    IN [nodeName |-> IF ~isField1Numeric /\ field1 # <<>> THEN field1 ELSE Undefined,
        nodesCount |-> IF isField1Numeric THEN parseNumericField(field1) ELSE 0,
        cpus |-> parseNumericField(CpuText(FieldAt(fields, 3))),
        memMb |-> parseNumericField(FieldAt(fields, 4)),
        gresInfo |-> parseGresInfo(FieldAt(fields, 5))]

\* rawName.split(',').map((part) => part.trim()).filter(Boolean)
PartitionNames(rawName) == FilterBoolean(Map(Split(rawName, ","), Trim))

NewPartition(name, isDefault) ==
    [name |-> name, nodes |-> 0, cpus |-> 0, memMb |-> 0, gpuMax |-> 0,
     gpuTypes |-> EmptyTypes, isDefault |-> isDefault]

\* MergeTypes keeping the count already stored for a type.
MergeTypesKeepExisting(a, b) ==
    [t \in (DOMAIN a) \cup (DOMAIN b) |-> IF t \in DOMAIN a THEN a[t] ELSE b[t]]

\* Per-type maximum of two gpuTypes maps.
MergeTypes(a, b) ==
    [t \in (DOMAIN a) \cup (DOMAIN b) |-> MaxOf(TypeCount(a, t), TypeCount(b, t))]

\* MergeRow with the capacities added up instead of maximised.
MergeRowSum(existing, row, isDefault) ==
    [existing EXCEPT
        !.cpus = existing.cpus + row.cpus,
        !.memMb = existing.memMb + row.memMb,
        !.gpuMax = existing.gpuMax + row.gresInfo.gpuMax,
        !.gpuTypes = [t \in (DOMAIN existing.gpuTypes) \cup (DOMAIN row.gresInfo.gpuTypes) |->
                         TypeCount(existing.gpuTypes, t) + TypeCount(row.gresInfo.gpuTypes, t)],
        !.isDefault = existing.isDefault \/ isDefault]

\* The elementwise merge of one row into the accumulator record.
MergeRow(existing, row, isDefault) ==
    [existing EXCEPT
        !.cpus = MaxOf(existing.cpus, row.cpus),
        !.memMb = MaxOf(existing.memMb, row.memMb),
        !.gpuMax = MaxOf(existing.gpuMax, row.gresInfo.gpuMax),
        !.gpuTypes = MergeTypes(existing.gpuTypes, row.gresInfo.gpuTypes),
        !.isDefault = existing.isDefault \/ isDefault]

\* Position of name in the partitions map (insertion order), 0 when absent.
IndexOfName(parts, name) ==
    IF \E i \in 1..Len(parts) : parts[i].name = name
    THEN CHOOSE i \in 1..Len(parts) : parts[i].name = name
    ELSE 0

\* The body of the loop over the names of one row.
\* acc = [partitions, nodeSets, defaultPartition]
NameStep(acc, partitionName, row) ==
    LET isDefault == Includes(partitionName, <<"*">>)
        name == StripStars(partitionName)
        idx == IndexOfName(acc.partitions, name)
        existing == IF idx > 0 THEN acc.partitions[idx] ELSE NewPartition(name, isDefault)
        counted == IF row.nodeName = Undefined /\ row.nodesCount # 0
                   THEN [existing EXCEPT !.nodes = MaxOf(existing.nodes, row.nodesCount)]
                   ELSE existing
        merged == MergeRow(counted, row, isDefault)
        oldSet == IF name \in DOMAIN acc.nodeSets THEN acc.nodeSets[name] ELSE {}
    IN [partitions |-> IF idx > 0 THEN [acc.partitions EXCEPT ![idx] = merged]
                       ELSE Append(acc.partitions, merged),
        nodeSets |-> IF row.nodeName # Undefined
                     THEN [n \in (DOMAIN acc.nodeSets) \cup {name} |->
                              IF n = name THEN oldSet \cup {row.nodeName}
                              ELSE acc.nodeSets[n]]
                     ELSE acc.nodeSets,
        defaultPartition |-> IF isDefault /\ Falsy(acc.defaultPartition)
                             THEN name ELSE acc.defaultPartition]

RECURSIVE NamesFold(_, _, _, _)
NamesFold(acc, names, i, row) ==
    IF i > Len(names) THEN acc
    ELSE NamesFold(NameStep(acc, names[i], row), names, i + 1, row)

\* The minimum number of '|'-fields of a row that is parsed.
MinRowFields == 3

\* The body of the loop over the lines.
LineStep(acc, line) ==
    LET fields == LineFields(line) IN
    IF Len(fields) < MinRowFields THEN acc
    ELSE IF fields[1] = <<>> THEN acc
    ELSE NamesFold(acc, PartitionNames(fields[1]), 1, RowValues(fields))

RECURSIVE LinesFold(_, _, _)
LinesFold(acc, lines, i) ==
    IF i > Len(lines) THEN acc ELSE LinesFold(LineStep(acc, lines[i]), lines, i + 1)

\* FinalizeNodes keeping the larger of the reported count and the set size.
FinalizeNodesMax(parts, nodeSets) ==
    [i \in 1..Len(parts) |->
        IF parts[i].name \in DOMAIN nodeSets
        THEN [parts[i] EXCEPT !.nodes = MaxOf(parts[i].nodes,
                                              Cardinality(nodeSets[parts[i].name]))]
        ELSE parts[i]]

\* The loop after the lines: a non-empty node set overwrites the node count.
FinalizeNodes(parts, nodeSets) ==
    [i \in 1..Len(parts) |->
        IF parts[i].name \in DOMAIN nodeSets /\ Cardinality(nodeSets[parts[i].name]) > 0
        THEN [parts[i] EXCEPT !.nodes = Cardinality(nodeSets[parts[i].name])]
        ELSE parts[i]]

\* Collation rank of a character: digits before letters, as localeCompare
\* orders them (partition names in the model are lower-case letters and digits).
CharOrder == DigitChars \o <<"a", "b", "c", "d", "e", "f", "g", "h", "i", "j", "k", "l", "m",
                            "n", "o", "p", "q", "r", "s", "t", "u", "v", "w", "x", "y", "z">>
CharRank(c) == IF \E i \in 1..Len(CharOrder) : CharOrder[i] = c
               THEN CHOOSE i \in 1..Len(CharOrder) : CharOrder[i] = c
               ELSE 0

RECURSIVE NameLess(_, _)
\* a.localeCompare(b) < 0
NameLess(a, b) ==
    IF b = <<>> THEN FALSE
    ELSE IF a = <<>> THEN TRUE
    ELSE IF CharRank(a[1]) # CharRank(b[1]) THEN CharRank(a[1]) < CharRank(b[1])
    ELSE NameLess(Tail(a), Tail(b))

\* Stable insertion of p into a list sorted by name.
RECURSIVE InsertByName(_, _)
InsertByName(sorted, p) ==
    IF sorted = <<>> THEN <<p>>
    ELSE IF NameLess(p.name, sorted[1].name) THEN <<p>> \o sorted
    ELSE <<sorted[1]>> \o InsertByName(Tail(sorted), p)

RECURSIVE SortFrom(_, _, _)
SortFrom(sorted, list, i) ==
    IF i > Len(list) THEN sorted ELSE SortFrom(InsertByName(sorted, list[i]), list, i + 1)

\* SortPartitions left out: the list stays in insertion order.
SortPartitionsOmitted(list) == list

\* Array.from(partitions.values()).sort((a, b) => a.name.localeCompare(b.name))
SortPartitions(list) == SortFrom(<<>>, list, 1)

parsePartitionInfoOutput(output) ==
    LET acc == LinesFold([partitions |-> <<>>, nodeSets |-> [n \in {} |-> {}],
                          defaultPartition |-> Undefined],
                         ReportLines(output), 1)
    IN [partitions |-> SortPartitions(FinalizeNodes(acc.partitions, acc.nodeSets)),
        defaultPartition |-> acc.defaultPartition]

(***************************************************************************)
(* Inputs of the GRES parser: descriptors of up to MaxTokens tokens.       *)
(***************************************************************************)
GresTokenPool == {
    Chars("gpu:a100:4(S:0-1)"),
    Chars("gpu:2"),
    Chars("gpu:a100"),
    Chars("gpu:a100::4"),
    Chars("gpu:v100:2"),
    Chars("gpu:a100:8"),
    Chars("mps:100"),
    Chars("gpu"),
    Chars("gpu:a100:x4"),
    Chars("gpu:0"),
    Chars(" gpu:1"),
    Chars("gpus:4"),
    Chars(":gpu:3"),
    Chars(""),
    Chars("gpu:a100:2:1g"),
    Chars("g()pu:5")
}

\* All sequences over S of length 0..n.
SeqsUpTo(S, n) == UNION {[1..k -> S] : k \in 0..n}

GresInputs == {Join(ts, <<",">>) : ts \in SeqsUpTo(GresTokenPool, MaxTokens)}

(***************************************************************************)
(* Specification of a call of parseGresInfo.                               *)
(***************************************************************************)
FetchIdle == cmdIdx = 0 /\ lastInfo = NoResult /\ execLog = <<>>
FilesIdle == files = <<>>
ConnectIdle == runs = <<>> /\ settings = <<>>
CacheIdle == cache = <<>>

InitGres ==
    /\ pc = "call"
    /\ input \in {[fn |-> "parseGresInfo", raw |-> r] : r \in GresInputs}
    /\ result = NoResult
    /\ CacheIdle
    /\ FetchIdle
    /\ FilesIdle
    /\ ConnectIdle

CallParseGresInfo ==
    /\ pc = "call"
    /\ input.fn = "parseGresInfo"
    /\ result' = parseGresInfo(input.raw)
    /\ pc' = "done"
    /\ UNCHANGED <<input, cmdIdx, lastInfo, execLog, files, runs, settings, cache>>

NextGres == CallParseGresInfo

SpecGres == InitGres /\ [][NextGres]_vars

(***************************************************************************)
(* Inputs of the report parser: reports of up to MaxLines rows.            *)
(***************************************************************************)
RowPool == {
    Chars("gpu*|2gpu-01|64|128000|gpu:a100:4"),
    Chars("cpu|10|32|64000|"),
    Chars("gpu|n1|32|64000|gpu:a100:2,gpu:2"),
    Chars("gpu|n2|128|32000|gpu:v100:8"),
    Chars("cpu,gpu*|n1|16/0/0/48|256000M|(null)"),
    Chars("cpu*|4|8|1000|gpu:1"),
    Chars("cpu|3"),
    Chars("|5|8|1000|gpu:4"),
    Chars("*|n3|2|2|"),
    Chars(" cpu | 12 | 4 | 5 | "),
    Chars("big|7|1|0|gpu:a100:1"),
    Chars("cpu|n1|64|1|"),
    Chars("gpu,big|1|2|3"),
    Chars("big|2|n/a|512|"),
    Chars("")
}

ReportInputs == {Join(rows, <<"\n">>) : rows \in SeqsUpTo(RowPool, MaxLines)}

(***************************************************************************)
(* Specification of a call of parsePartitionInfoOutput.                    *)
(***************************************************************************)
InitParse ==
    /\ pc = "call"
    /\ input \in {[fn |-> "parsePartitionInfoOutput", output |-> r] : r \in ReportInputs}
    /\ result = NoResult
    /\ CacheIdle
    /\ FetchIdle
    /\ FilesIdle
    /\ ConnectIdle

CallParsePartitionInfoOutput ==
    /\ pc = "call"
    /\ input.fn = "parsePartitionInfoOutput"
    /\ result' = parsePartitionInfoOutput(input.output)
    /\ pc' = "done"
    /\ UNCHANGED <<input, cmdIdx, lastInfo, execLog, files, runs, settings, cache>>

NextParse == CallParsePartitionInfoOutput

SpecParse == InitParse /\ [][NextParse]_vars

(***************************************************************************)
(* Claims about parseGresInfo.                                             *)
(***************************************************************************)
\* The parts of a token as the rule words them: parenthetical groups removed,
\* the rest split on ':' (surrounding blanks ignored).
RuleParts(token) == Map(Split(StripParens(token), ":"), Trim)
\* The same with empty parts dropped.
RulePartsNonEmpty(token) == SelectSeq(RuleParts(token), LAMBDA part : Len(part) > 0)

RuleKept(parts) == Len(parts) >= 1 /\ parts[1] = S_gpu
RuleType(parts) ==
    IF Len(parts) >= 3 THEN parts[2]
    ELSE IF Len(parts) = 2 /\ ~AllDigits(parts[2]) THEN parts[2]
    ELSE <<>>
RuleCount(parts) ==
    IF Len(parts) >= 3 /\ AllDigits(parts[3]) THEN ToNum(parts[3])
    ELSE IF Len(parts) = 2 /\ AllDigits(parts[2]) THEN ToNum(parts[2])
    ELSE 0

\* The reference rule, stated over the set of surviving tokens: P gives the
\* parts of a token, mustContain says whether a token must contain "gpu".
RuleGres(raw, P(_), mustContain) ==
    LET toks == GresTokens(raw)
        surv == {i \in 1..Len(toks) :
                    /\ mustContain => Includes(toks[i], S_gpu)
                    /\ RuleKept(P(toks[i]))
                    /\ RuleCount(P(toks[i])) > 0}
        labels == {RuleType(P(toks[i])) : i \in surv}
    IN [gpuMax |-> SetMax({RuleCount(P(toks[i])) : i \in surv}),
        gpuTypes |-> [t \in labels |->
            SetMax({RuleCount(P(toks[i])) : i \in {j \in surv : RuleType(P(toks[j])) = t}})]]

GresDone == pc = "done" /\ input.fn = "parseGresInfo"

\* C6 as stated: for every descriptor, parseGresInfo equals the reference rule
\* in which a token is kept iff, after removing parenthetical suffixes and
\* splitting on ':', part[0] is 'gpu'; gpu:X is an untyped count when X is all
\* digits; gpu:type:count has count part[2] iff part[2] is all digits; counts
\* <= 0 are discarded; gpuMax and gpuTypes are maxima over surviving tokens.
C6_AsStated == GresDone => result = RuleGres(input.raw, RuleParts, FALSE)

\* C6 amended: the same rule, where a token must contain 'gpu' and the parts
\* are the non-empty segments between ':' (empty segments are dropped before
\* the parts are counted), so gpu:a100::4 gives a100 -> 4 and :gpu:3 gives '' -> 3.
C6_GresRule == GresDone => result = RuleGres(input.raw, RulePartsNonEmpty, TRUE)

\* A typed token with an empty segment and an untyped token both survive.
C6_Witness ==
    /\ GresDone
    /\ input.raw = Chars("gpu:a100::4,gpu:2")
    /\ result.gpuMax = 4
    /\ DOMAIN result.gpuTypes = {Chars("a100"), <<>>}

(***************************************************************************)
(* Claims about parsePartitionInfoOutput.                                  *)
(***************************************************************************)
ParseDone == pc = "done" /\ input.fn = "parsePartitionInfoOutput"

\* The rows of a report that are parsed: the field lists of the non-blank
\* lines with at least three fields and a non-empty name field.
ParsedRows(output) ==
    SelectSeq(Map(ReportLines(output), LineFields),
              LAMBDA fields : Len(fields) >= 3 /\ fields[1] # <<>>)

\* Row i of rows names partition name in its comma-separated name list.
Contributes(fields, name) ==
    \E k \in 1..Len(PartitionNames(fields[1])) :
        StripStars(PartitionNames(fields[1])[k]) = name

RowsFor(rows, name) == {i \in 1..Len(rows) : Contributes(rows[i], name)}

\* A node identifier: a non-empty field[1] that does not start with a digit.
IsNodeIdentifier(field1) == field1 # <<>> /\ field1[1] \notin Digits

\* C2: parsing the one-row report gpu*|2gpu-01|64|128000|gpu:a100:4 yields a
\* single partition gpu with nodes = 1 and isDefault = TRUE (2gpu-01 is a node
\* identifier, counted as one distinct node).
C2_NodeNameStartingWithDigit ==
    (ParseDone /\ input.output = Chars("gpu*|2gpu-01|64|128000|gpu:a100:4")) =>
        /\ Len(result.partitions) = 1
        /\ result.partitions[1].name = Chars("gpu")
        /\ result.partitions[1].nodes = 1
        /\ result.partitions[1].isDefault

C4_MergeIsMax ==
    ParseDone =>
        LET rows == ParsedRows(input.output) IN
        \A k \in 1..Len(result.partitions) :
            LET p == result.partitions[k]
                mine == RowsFor(rows, p.name)
                types == UNION {DOMAIN RowValues(rows[i]).gresInfo.gpuTypes : i \in mine}
            IN /\ p.cpus = SetMax({RowValues(rows[i]).cpus : i \in mine})
               /\ p.memMb = SetMax({RowValues(rows[i]).memMb : i \in mine})
               /\ p.gpuMax = SetMax({RowValues(rows[i]).gresInfo.gpuMax : i \in mine})
               /\ DOMAIN p.gpuTypes = types
               /\ \A t \in types :
                      p.gpuTypes[t] =
                          SetMax({TypeCount(RowValues(rows[i]).gresInfo.gpuTypes, t) : i \in mine})
               /\ p.isDefault <=>
                      \E i \in mine : \E e \in 1..Len(PartitionNames(rows[i][1])) :
                          /\ StripStars(PartitionNames(rows[i][1])[e]) = p.name
                          /\ Includes(PartitionNames(rows[i][1])[e], <<"*">>)

\* Two rows of partition gpu with different capacities and GPU types.
C4_Witness ==
    /\ ParseDone
    /\ input.output = Chars("gpu|n1|32|64000|gpu:a100:2,gpu:2\ngpu|n2|128|32000|gpu:v100:8")
    /\ Len(result.partitions) = 1
    /\ result.partitions[1].cpus = 128
    /\ result.partitions[1].memMb = 64000
    /\ result.partitions[1].gpuMax = 8

\* The lines of a report that have at least three '|'-fields and a non-empty
\* name field.
UsefulLines(output) ==
    SelectSeq(SplitLines(output),
              LAMBDA line : Len(Split(line, "|")) >= 3 /\ Trim(Split(line, "|")[1]) # <<>>)

\* C5: for every report the parser returns; the partitions have pairwise
\* distinct names, are sorted ascending by name, every numeric field is >= 0,
\* and lines with fewer than three fields or an empty name contribute nothing.
C5_WellFormedResult ==
    /\ (pc = "call" /\ input.fn = "parsePartitionInfoOutput") =>
           DOMAIN parsePartitionInfoOutput(input.output) = {"partitions", "defaultPartition"}
    /\ ParseDone =>
        LET ps == result.partitions IN
        /\ \A i, j \in 1..Len(ps) : i # j => ps[i].name # ps[j].name
        /\ \A i \in 1..(Len(ps) - 1) : NameLess(ps[i].name, ps[i + 1].name)
        /\ \A i \in 1..Len(ps) :
               /\ ps[i].nodes >= 0 /\ ps[i].cpus >= 0 /\ ps[i].memMb >= 0
               /\ ps[i].gpuMax >= 0
               /\ \A t \in DOMAIN ps[i].gpuTypes : ps[i].gpuTypes[t] >= 0
        /\ result = parsePartitionInfoOutput(Join(UsefulLines(input.output), <<"\n">>))

\* Names out of order in the report and a two-field line that is dropped.
C5_Witness ==
    /\ ParseDone
    /\ input.output = Chars("gpu,big|1|2|3\ncpu|3")
    /\ Len(result.partitions) = 2
    /\ result.partitions[1].name = Chars("big")
    /\ result.partitions[2].name = Chars("gpu")

(***************************************************************************)
(* fetchClusterInfo                                                        *)
(***************************************************************************)
\* The two built-in report commands.
NodeRowsCommand == Chars("sinfo -h -N -o \"%P|%n|%c|%m|%G\"")
PartitionRowsCommand == Chars("sinfo -h -o \"%P|%D|%c|%m|%G\"")

\* The candidates with the one-row-per-partition report tried before the
\* one-row-per-node report.
FetchCommandsPartitionFirst(cfg) ==
    FilterBoolean(<<cfg.partitionInfoCommand, PartitionRowsCommand, NodeRowsCommand>>)

\* [cfg.partitionInfoCommand, <per node>, <per partition>].filter(Boolean)
FetchCommands(cfg) ==
    FilterBoolean(<<cfg.partitionInfoCommand, NodeRowsCommand, PartitionRowsCommand>>)

\* hasMeaningfulClusterInfo accepting every parse.
hasMeaningfulClusterInfoAlways(info) == TRUE

hasMeaningfulClusterInfo(info) ==
    /\ Len(info.partitions) # 0
    /\ \E i \in 1..Len(info.partitions) :
           \/ info.partitions[i].cpus > 0
           \/ info.partitions[i].memMb > 0
           \/ info.partitions[i].gpuMax > 0

getMaxFieldCount(output) ==
    LET lines == SelectSeq(SplitLines(output), LAMBDA line : Len(Trim(line)) > 0)
    IN SetMax({Len(Split(lines[i], "|")) : i \in 1..Len(lines)})

\* The fewest '|'-fields a report must show to be accepted.
MinFieldCount == 5

\* The checks of one loop iteration, in the order of the code: which check
\* sends the loop to the next candidate ("gpu": GPU data in the text but none
\* parsed; "fields": too few columns; "meaningless"), or "return".
CandidateVerdict(outputHasGpu, hasGpu, maxFields, info) ==
    IF outputHasGpu /\ ~hasGpu THEN "gpu"
    ELSE IF maxFields < MinFieldCount THEN "fields"
    ELSE IF hasMeaningfulClusterInfo(info) THEN "return"
    ELSE "meaningless"

\* What the remote command may print.
FetchOutputPool == {
    Chars("cpu|1|32|64000|(null)\n"),
    Chars("gpu|n1|64|128000|gpu:a100:4\n"),
    Chars("cpu|10|32\n"),
    Chars("cpu|4|0|0|\n"),
    Chars("gpu|n1|64|1000|gpu:a100\n"),
    Chars(""),
    Chars("slurm_load_partitions: error\n")
}

FetchRunning == pc = "loop" /\ input.fn = "fetchClusterInfo"

InitFetch ==
    /\ pc = "loop"
    /\ input \in {[fn |-> "fetchClusterInfo", cfg |-> [partitionInfoCommand |-> c]] :
                     c \in {<<>>, Chars("sinfo -o \"%R|%D|%c|%m|%G\"")}}
    /\ result = NoResult
    /\ CacheIdle
    /\ cmdIdx = 1
    /\ lastInfo = [partitions |-> <<>>, defaultPartition |-> Undefined]
    /\ execLog = <<>>
    /\ FilesIdle
    /\ ConnectIdle

\* One iteration of the loop in which runSshCommand resolves with stdout.
RunCandidate(stdout) ==
    /\ FetchRunning
    /\ cmdIdx <= Len(FetchCommands(input.cfg))
    /\ LET output == Trim(stdout)
           info == parsePartitionInfoOutput(output)
           maxFields == getMaxFieldCount(output)
           outputHasGpu == Includes(output, Chars("gpu:"))
           hasGpu == \E i \in 1..Len(info.partitions) : info.partitions[i].gpuMax > 0
           verdict == CandidateVerdict(outputHasGpu, hasGpu, maxFields, info)
           accepted == verdict = "return"
       IN /\ lastInfo' = info
          /\ execLog' = Append(execLog, [command |-> FetchCommands(input.cfg)[cmdIdx],
                                         ok |-> TRUE, output |-> output,
                                         verdict |-> verdict, accepted |-> accepted])
          /\ IF accepted
             THEN /\ result' = info
                  /\ pc' = "returned"
                  /\ cmdIdx' = cmdIdx
             ELSE /\ cmdIdx' = cmdIdx + 1
                  /\ UNCHANGED <<result, pc>>
    /\ UNCHANGED <<input, files, runs, settings, cache>>

\* One iteration in which runSshCommand rejects (ssh fails or times out):
\* nothing in fetchClusterInfo catches it, so the fetch rejects.
RunCandidateFails ==
    /\ FetchRunning
    /\ cmdIdx <= Len(FetchCommands(input.cfg))
    /\ execLog' = Append(execLog, [command |-> FetchCommands(input.cfg)[cmdIdx],
                                   ok |-> FALSE, output |-> <<>>,
                                   verdict |-> "rejected", accepted |-> FALSE])
    /\ result' = [kind |-> "error"]
    /\ pc' = "threw"
    /\ UNCHANGED <<input, cmdIdx, lastInfo, files, runs, settings, cache>>

\* After the loop: an error instead of lastInfo.
ReturnLastInfoThrows ==
    /\ FetchRunning
    /\ cmdIdx > Len(FetchCommands(input.cfg))
    /\ result' = [kind |-> "error"]
    /\ pc' = "threw"
    /\ UNCHANGED <<input, cmdIdx, lastInfo, execLog, files, runs, settings, cache>>

\* After the loop: return lastInfo.
ReturnLastInfo ==
    /\ FetchRunning
    /\ cmdIdx > Len(FetchCommands(input.cfg))
    /\ result' = lastInfo
    /\ pc' = "returned"
    /\ UNCHANGED <<input, cmdIdx, lastInfo, execLog, files, runs, settings, cache>>

NextFetch ==
    \/ \E stdout \in FetchOutputPool : RunCandidate(stdout)
    \/ RunCandidateFails
    \/ ReturnLastInfo

SpecFetch == InitFetch /\ [][NextFetch]_vars

\* runSshCommand resolves or rejects (ssh runs with a timeout), and the code
\* between two awaits runs to its end.
SpecFetchFair == SpecFetch /\ WF_vars(NextFetch)

(***************************************************************************)
(* Claims about fetchClusterInfo.                                          *)
(***************************************************************************)
\* C1: fetchClusterInfo raises an error only when the remote execution of
\* every candidate command failed: a failed execution lets the fetch go on
\* with the next candidate, and a fetch in which some candidate executed and
\* parsed returns a parsed result.
C1_ThrowsOnlyIfAllFailed ==
    (pc = "threw" /\ input.fn = "fetchClusterInfo") =>
        /\ Len(execLog) = Len(FetchCommands(input.cfg))
        /\ \A i \in 1..Len(execLog) : ~execLog[i].ok

(***************************************************************************)
(* buildDefaultAlias                                                       *)
(***************************************************************************)
MaxNodes == 2       \* largest node count of a resource selection

\* The characters [a-zA-Z0-9_-].
AliasChars == LowerChars \cup UpperChars \cup Digits \cup {"_", "-"}

\* s.replace(/[^a-zA-Z0-9_-]/g, '-')
SanitizeAlias(s) == [i \in 1..Len(s) |-> IF s[i] \in AliasChars THEN s[i] ELSE "-"]

\* The pieces joined by '-': prefix (or 'sciama'), short host name, the
\* partition if set, "<nodes>n" and "<cpusPerTask>c".
AliasPieces(prefix, loginHost, partition, nodes, cpusPerTask) ==
    LET hostShort == Split(loginHost, ".")[1]
    IN <<IF Falsy(prefix) THEN Chars("sciama") ELSE prefix, hostShort>>
       \o (IF Falsy(partition) THEN <<>> ELSE <<partition>>)
       \o <<ToStr(nodes) \o <<"n">>, ToStr(cpusPerTask) \o <<"c">>>>

\* buildDefaultAlias without the final replace.
buildDefaultAliasUnsanitized(prefix, loginHost, partition, nodes, cpusPerTask) ==
    Join(AliasPieces(prefix, loginHost, partition, nodes, cpusPerTask), <<"-">>)

buildDefaultAlias(prefix, loginHost, partition, nodes, cpusPerTask) ==
    SanitizeAlias(Join(AliasPieces(prefix, loginHost, partition, nodes, cpusPerTask),
                       <<"-">>))

AliasInputs ==
    [fn : {"buildDefaultAlias"},
     prefix : {<<>>, Chars("sciama"), Chars("my host")},
     loginHost : {Chars("login1.example.com"), Chars("login"), Chars(".hidden"),
                  Chars("lo gin!.x")},
     partition : {Undefined, <<>>, Chars("gpu"), Chars("gpu.q")},
     nodes : 1..MaxNodes,
     cpusPerTask : {1, 16}]

InitAlias ==
    /\ pc = "call"
    /\ input \in AliasInputs
    /\ result = NoResult
    /\ CacheIdle
    /\ FetchIdle
    /\ FilesIdle
    /\ ConnectIdle

CallBuildDefaultAlias ==
    /\ pc = "call"
    /\ input.fn = "buildDefaultAlias"
    /\ result' = buildDefaultAlias(input.prefix, input.loginHost, input.partition,
                                   input.nodes, input.cpusPerTask)
    /\ pc' = "done"
    /\ UNCHANGED <<input, cmdIdx, lastInfo, execLog, files, runs, settings, cache>>

NextAlias == CallBuildDefaultAlias

SpecAlias == InitAlias /\ [][NextAlias]_vars

(***************************************************************************)
(* Claims about buildDefaultAlias.                                         *)
(***************************************************************************)
AliasDone == pc = "done" /\ input.fn = "buildDefaultAlias"

\* The text before the first '.' of a host name.
ShortName(host) ==
    IF \E i \in 1..Len(host) : host[i] = "."
    THEN SubSeq(host, 1, (CHOOSE i \in 1..Len(host) :
                             host[i] = "." /\ \A j \in 1..(i - 1) : host[j] # ".") - 1)
    ELSE host

\* first-hostShortName[-partition]-{nodes}n-{cpusPerTask}c, unsanitized.
AliasPattern(first, in) ==
    first \o <<"-">> \o ShortName(in.loginHost)
    \o (IF in.partition = Undefined \/ in.partition = <<>> THEN <<>>
        ELSE <<"-">> \o in.partition)
    \o <<"-">> \o ToStr(in.nodes) \o <<"n">>
    \o <<"-">> \o ToStr(in.cpusPerTask) \o <<"c">>

\* text with every character outside [A-Za-z0-9_-] replaced by '-'.
IsSanitized(text, raw) ==
    /\ Len(text) = Len(raw)
    /\ \A i \in 1..Len(raw) :
           text[i] = IF raw[i] \in AliasChars THEN raw[i] ELSE "-"
    /\ text # <<>>
    /\ \A i \in 1..Len(text) : text[i] \in AliasChars

\* C10 as stated: for all inputs buildDefaultAlias returns
\* prefix-hostShortName[-partition]-{nodes}n-{cpusPerTask}c with every
\* character outside [A-Za-z0-9_-] replaced by '-', non-empty and within
\* that class.
C10_AsStated == AliasDone => IsSanitized(result, AliasPattern(input.prefix, input))

\* C10 amended: the same, where an empty prefix is replaced by 'sciama'.
C10_DefaultAlias ==
    AliasDone =>
        IsSanitized(result,
                    AliasPattern(IF input.prefix = <<>> THEN Chars("sciama")
                                 ELSE input.prefix, input))

\* A call whose prefix and host contain characters outside the class.
C10_Witness ==
    /\ AliasDone
    /\ input.prefix = Chars("my host")
    /\ input.loginHost = Chars("lo gin!.x")
    /\ input.partition = Chars("gpu.q")
    /\ input.nodes = 2
    /\ input.cpusPerTask = 16
    /\ result = Chars("my-host-lo-gin--gpu-q-2n-16c")

(***************************************************************************)
(* buildHostEntry and writeTemporarySshConfig                              *)
(***************************************************************************)
\* The characters of option names (digits, letters, underscore) in
\* code-unit order.
AsciiOrder ==
    Chars("0123456789ABCDEFGHIJKLMNOPQRSTUVWXYZ_abcdefghijklmnopqrstuvwxyz")
CodeUnit(c) == CHOOSE i \in 1..Len(AsciiOrder) : AsciiOrder[i] = c

RECURSIVE CodeLess(_, _)
\* a < b for strings (comparison by code units, as Array.prototype.sort()).
CodeLess(a, b) ==
    IF b = <<>> THEN FALSE
    ELSE IF a = <<>> THEN TRUE
    ELSE IF a[1] # b[1] THEN CodeUnit(a[1]) < CodeUnit(b[1])
    ELSE CodeLess(Tail(a), Tail(b))

\* The keys in descending order.
SortedKeysDescending(options) ==
    [k \in 1..Cardinality(DOMAIN options) |->
        CHOOSE key \in DOMAIN options :
            Cardinality({other \in DOMAIN options : CodeLess(key, other)}) = k - 1]

\* Object.keys(options).sort()
SortedKeys(options) ==
    [k \in 1..Cardinality(DOMAIN options) |->
        CHOOSE key \in DOMAIN options :
            Cardinality({other \in DOMAIN options : CodeLess(other, key)}) = k - 1]

\* The lines of the additional options: one per key with a non-empty value.
ExtraOptionLines(options) ==
    LET keys == SelectSeq(SortedKeys(options), LAMBDA key : Len(options[key]) > 0)
    IN [k \in 1..Len(keys) |-> Chars("  ") \o keys[k] \o <<" ">> \o options[keys[k]]]

\* now: the text of new Date().toISOString()
buildHostEntry(alias, loginHost, cfg, remoteCommand, now) ==
    LET lines ==
            <<Chars("# Generated by Sciama Slurm Connect on ") \o now,
              Chars("Host ") \o alias,
              Chars("  HostName ") \o loginHost>>
            \o (IF cfg.user # <<>> THEN <<Chars("  User ") \o cfg.user>> ELSE <<>>)
            \o (IF cfg.requestTTY THEN <<Chars("  RequestTTY yes")>> ELSE <<>>)
            \o (IF cfg.forwardAgent THEN <<Chars("  ForwardAgent yes")>> ELSE <<>>)
            \o (IF cfg.identityFile # <<>>
                THEN <<Chars("  IdentityFile ") \o cfg.identityFile>> ELSE <<>>)
            \o <<Chars("  RemoteCommand ") \o remoteCommand>>
            \o ExtraOptionLines(cfg.additionalSshOptions)
    IN Join(lines, <<"\n">>) \o <<"\n">>

HomeDir == Chars("/home/user")
ExtensionStoragePath == Chars("/storage/sciama")

\* path.join(a, b): the two joined by '/', repeated separators collapsed.
PathJoin(a, b) ==
    LET joined == a \o <<"/">> \o b
        keep == {i \in 1..Len(joined) : ~(joined[i] = "/" /\ i > 1 /\ joined[i - 1] = "/")}
    IN [k \in 1..Cardinality(keep) |-> joined[Kth(keep, k)]]

expandHome(path) ==
    IF path = <<>> THEN path
    ELSE IF path[1] = "~" THEN PathJoin(HomeDir, SubSeq(path, 2, Len(path)))
    ELSE path

\* The overlay written over the user's own ~/.ssh/config.
TemporaryConfigPathMain(cfg) == expandHome(Chars("~/.ssh/config"))

\* writeTemporarySshConfig: the path written.
TemporaryConfigPath(cfg) ==
    IF cfg.temporarySshConfigPath # <<>> THEN expandHome(cfg.temporarySshConfigPath)
    ELSE PathJoin(ExtensionStoragePath, Chars("sciama-ssh-config"))

\* writeTemporarySshConfig: the content written.
TemporaryConfigContent(entry) ==
    Chars("# Temporary SSH config generated by Sciama Slurm Connect\n") \o entry

OptionSets == {
    <<>>,
    [key \in {Chars("LocalCommand")} |-> Chars("echo hello world")],
    [key \in {Chars("ServerAliveInterval"), Chars("Compression"), Chars("LogLevel")} |->
        IF key = Chars("Compression") THEN Chars("yes")
        ELSE IF key = Chars("LogLevel") THEN <<>> ELSE Chars("30")]
}

ConfigInputs ==
    [fn : {"writeTemporarySshConfig"},
     alias : {Chars("sciama-login1-gpu-1n-8c")},
     loginHost : {Chars("login1.example.com")},
     remoteCommand : {Chars("python vscode-shell-proxy.py --salloc-arg=--nodes=1")},
     now : {Chars("2024-05-01T10:00:00.000Z")},
     cfg : [user : {<<>>, Chars("alice")},
            requestTTY : BOOLEAN,
            forwardAgent : BOOLEAN,
            identityFile : {<<>>, Chars("~/.ssh/id_rsa"), Chars("/Users/Test User/.ssh/id_rsa"),
                            Chars("\"/Users/Test User/.ssh/id_rsa\"")},
            additionalSshOptions : OptionSets,
            temporarySshConfigPath : {<<>>, Chars("~/.ssh/sciama overlay")}],
     includePaths : {<<>>, <<Chars("/Users/Test User/.ssh/config")>>,
                     <<Chars("~/.ssh/config"), Chars("/etc/ssh/ssh_config")>>}]

InitConfig ==
    /\ pc = "build"
    /\ input \in ConfigInputs
    /\ result = NoResult
    /\ CacheIdle
    /\ FetchIdle
    /\ FilesIdle
    /\ ConnectIdle

\* connectCommand: const hostEntry = buildHostEntry(...)
BuildHostEntry ==
    /\ pc = "build"
    /\ input.fn = "writeTemporarySshConfig"
    /\ result' = [kind |-> "entry",
                  hostEntry |-> buildHostEntry(input.alias, input.loginHost, input.cfg,
                                               input.remoteCommand, input.now)]
    /\ pc' = "write"
    /\ UNCHANGED <<input, cmdIdx, lastInfo, execLog, files, runs, settings, cache>>

\* writeTemporarySshConfig resolves: the file is written and its path returned.
WriteTemporarySshConfig ==
    /\ pc = "write"
    /\ input.fn = "writeTemporarySshConfig"
    /\ LET basePath == TemporaryConfigPath(input.cfg) IN
       /\ files' = [path \in (DOMAIN files) \cup {basePath} |->
                       IF path = basePath THEN TemporaryConfigContent(result.hostEntry)
                       ELSE files[path]]
       /\ result' = [kind |-> "written", hostEntry |-> result.hostEntry, path |-> basePath]
    /\ pc' = "done"
    /\ UNCHANGED <<input, cmdIdx, lastInfo, execLog, runs, settings, cache>>

\* writeTemporarySshConfig rejects (mkdir or writeFile fails): nothing written.
WriteTemporarySshConfigFails ==
    /\ pc = "write"
    /\ input.fn = "writeTemporarySshConfig"
    /\ result' = [kind |-> "error", hostEntry |-> result.hostEntry]
    /\ pc' = "failed"
    /\ UNCHANGED <<input, cmdIdx, lastInfo, execLog, files, runs, settings, cache>>

NextConfig ==
    \/ BuildHostEntry
    \/ WriteTemporarySshConfig
    \/ WriteTemporarySshConfigFails

SpecConfig == InitConfig /\ [][NextConfig]_vars

(***************************************************************************)
(* Claims about the generated host block and the overlay file.             *)
(***************************************************************************)
\* The value-quoting rule: a value that begins and ends with a double quote
\* is unchanged; otherwise a value containing whitespace is wrapped in double
\* quotes with every backslash and double quote prefixed by a backslash; a
\* value without whitespace is unchanged.
RECURSIVE EscapeQuoted(_)
EscapeQuoted(value) ==
    IF value = <<>> THEN <<>>
    ELSE (IF value[1] \in {"\\", "\""} THEN <<"\\", value[1]>> ELSE <<value[1]>>)
         \o EscapeQuoted(Tail(value))

formatSshConfigValue(value) ==
    IF Len(value) >= 2 /\ value[1] = "\"" /\ value[Len(value)] = "\"" THEN value
    ELSE IF \E i \in 1..Len(value) : value[i] \in Whitespace
         THEN <<"\"">> \o EscapeQuoted(value) \o <<"\"">>
    ELSE value

\* text holds line as one of its lines.
HasLine(text, line) == \E i \in 1..Len(SplitLines(text)) : SplitLines(text)[i] = line

\* C7: every value emitted after a directive name in the generated host block,
\* in particular IdentityFile and each additional SSH option, follows the
\* value-quoting rule.
C7_ValuesQuoted ==
    (pc \in {"write", "done", "failed"} /\ input.fn = "writeTemporarySshConfig") =>
        /\ input.cfg.identityFile # <<>> =>
               HasLine(result.hostEntry,
                       Chars("  IdentityFile ") \o formatSshConfigValue(input.cfg.identityFile))
        /\ \A key \in DOMAIN input.cfg.additionalSshOptions :
               input.cfg.additionalSshOptions[key] # <<>> =>
                   HasLine(result.hostEntry,
                           Chars("  ") \o key \o <<" ">>
                           \o formatSshConfigValue(input.cfg.additionalSshOptions[key]))

\* text ends with tail.
EndsWith(text, tail) ==
    Len(text) >= Len(tail) /\ SubSeq(text, Len(text) - Len(tail) + 1, Len(text)) = tail

\* C8: the overlay file written for a session consists of one Include <path>
\* directive per include path, each path quoted under the value-quoting rule,
\* followed by the generated host block.
C8_OverlayIncludes ==
    (pc = "done" /\ input.fn = "writeTemporarySshConfig") =>
        /\ EndsWith(files[result.path], result.hostEntry)
        /\ \A i \in 1..Len(input.includePaths) :
               HasLine(files[result.path],
                       Chars("Include ") \o formatSshConfigValue(input.includePaths[i]))

(***************************************************************************)
(* Launch-command builders and list parsers used by connectCommand.        *)
(***************************************************************************)
\* input.split(/\s+/).filter(Boolean): the maximal runs of non-whitespace.
SplitWhitespace(s) ==
    LET starts == {i \in 1..Len(s) :
                      s[i] \notin Whitespace /\ (i = 1 \/ s[i - 1] \in Whitespace)}
        EndOf(a) == CHOOSE b \in a..Len(s) :
                      /\ \A j \in a..b : s[j] \notin Whitespace
                      /\ (b = Len(s) \/ s[b + 1] \in Whitespace)
    IN [k \in 1..Cardinality(starts) |-> SubSeq(s, Kth(starts, k), EndOf(Kth(starts, k)))]

\* uniqueList: first occurrences, in order.
uniqueList(values) ==
    LET first == {i \in 1..Len(values) : \A j \in 1..(i - 1) : values[j] # values[i]}
    IN [k \in 1..Cardinality(first) |-> values[Kth(first, k)]]

parseSimpleList(output) == uniqueList(SplitWhitespace(output))

splitArgs(in) == SplitWhitespace(in)

\* parsePartitionOutput: the names with '*' removed (empty ones skipped,
\* duplicates dropped) and the first '*'-flagged name as default.
parsePartitionOutput(output) ==
    LET tokens == SplitWhitespace(output)
        kept == SelectSeq(tokens, LAMBDA token : StripStars(token) # <<>>)
        flagged == SelectSeq(kept, LAMBDA token : Includes(token, <<"*">>))
    IN [partitions |-> uniqueList([k \in 1..Len(kept) |-> StripStars(kept[k])]),
        defaultPartition |-> IF flagged = <<>> THEN Undefined ELSE StripStars(flagged[1])]

\* The flag pushed whether or not cond holds.
FlagAlways(cond, name, value) == <<Chars(name) \o value>>

\* One flag "--name=value", present only when cond holds.
FlagIf(cond, name, value) == IF cond THEN <<Chars(name) \o value>> ELSE <<>>

buildSallocArgs(params) ==
    FlagIf(~Falsy(params.partition), "--partition=", params.partition)
    \o <<Chars("--nodes=") \o ToStr(params.nodes),
         Chars("--ntasks-per-node=") \o ToStr(params.tasksPerNode),
         Chars("--cpus-per-task=") \o ToStr(params.cpusPerTask),
         Chars("--time=") \o params.time>>
    \o FlagIf(~Falsy(params.qos), "--qos=", params.qos)
    \o FlagIf(~Falsy(params.account), "--account=", params.account)
    \o FlagIf(params.memoryMb > 0, "--mem=", ToStr(params.memoryMb))
    \o FlagIf(params.gpuCount > 0, "--gres=",
              IF ~Falsy(params.gpuType) /\ Trim(params.gpuType) # <<>>
              THEN Chars("gpu:") \o Trim(params.gpuType) \o <<":">> \o ToStr(params.gpuCount)
              ELSE Chars("gpu:") \o ToStr(params.gpuCount))

\* The resource selections buildSallocArgs is called with.
SallocInputs ==
    [fn : {"buildSallocArgs"},
     partition : {Undefined, <<>>, Chars("gpu")},
     nodes : 1..MaxNodes, tasksPerNode : {1}, cpusPerTask : {8},
     time : {Chars("24:00:00")},
     memoryMb : {0, 64000},
     gpuType : {Undefined, <<>>, Chars(" "), Chars("a100")},
     gpuCount : {0, 2},
     qos : {Undefined, <<>>, Chars("normal")},
     account : {Undefined, Chars("astro")}]

InitSalloc ==
    /\ pc = "call"
    /\ input \in SallocInputs
    /\ result = NoResult
    /\ CacheIdle
    /\ FetchIdle
    /\ FilesIdle
    /\ ConnectIdle

CallBuildSallocArgs ==
    /\ pc = "call"
    /\ input.fn = "buildSallocArgs"
    /\ result' = buildSallocArgs(input)
    /\ pc' = "done"
    /\ UNCHANGED <<input, cmdIdx, lastInfo, execLog, files, runs, settings, cache>>

NextSalloc == CallBuildSallocArgs

SpecSalloc == InitSalloc /\ [][NextSalloc]_vars

\* The wrapped flags put before the proxy command.
buildRemoteCommandFlagsFirst(cfg, sallocArgs) ==
    LET proxyParts == <<cfg.proxyCommand>> \o FilterBoolean(cfg.proxyArgs)
        proxyCommand == Trim(Join(FilterBoolean(proxyParts), <<" ">>))
        sallocFlags == [k \in 1..Len(sallocArgs) |-> Chars("--salloc-arg=") \o sallocArgs[k]]
        fullProxyCommand == Trim(Join(sallocFlags \o <<proxyCommand>>, <<" ">>))
    IN IF proxyCommand = <<>> THEN <<>>
       ELSE IF cfg.moduleLoad # <<>>
            THEN Trim(cfg.moduleLoad \o Chars(" && ") \o fullProxyCommand)
       ELSE fullProxyCommand

\* buildRemoteCommand: '' when no proxy command results.
buildRemoteCommand(cfg, sallocArgs) ==
    LET proxyParts == <<cfg.proxyCommand>> \o FilterBoolean(cfg.proxyArgs)
        proxyCommand == Trim(Join(FilterBoolean(proxyParts), <<" ">>))
        sallocFlags == [k \in 1..Len(sallocArgs) |-> Chars("--salloc-arg=") \o sallocArgs[k]]
        fullProxyCommand == Trim(Join(<<proxyCommand>> \o sallocFlags, <<" ">>))
    IN IF proxyCommand = <<>> THEN <<>>
       ELSE IF cfg.moduleLoad # <<>>
            THEN Trim(cfg.moduleLoad \o Chars(" && ") \o fullProxyCommand)
       ELSE fullProxyCommand

\* /^\d{1,2}:\d{2}:\d{2}$/.test(t)
ClockPattern(t) ==
    /\ Len(t) \in {7, 8}
    /\ LET h == Len(t) - 6
       IN /\ AllDigits(SubSeq(t, 1, h))
          /\ t[h + 1] = ":" /\ AllDigits(SubSeq(t, h + 2, h + 3))
          /\ t[h + 4] = ":" /\ AllDigits(SubSeq(t, h + 5, h + 6))

\* promptTime's timePattern /^(\d+-)?\d{1,2}:\d{2}:\d{2}$/ .test(t)
timePattern(t) ==
    \/ ClockPattern(t)
    \/ \E k \in 2..Len(t) :
           /\ t[k] = "-" /\ AllDigits(SubSeq(t, 1, k - 1))
           /\ ClockPattern(SubSeq(t, k + 1, Len(t)))

(***************************************************************************)
(* connectCommand: one run is one invocation.  A run advances from one     *)
(* await to the next; the code between two awaits is executed in one step. *)
(***************************************************************************)
\* new Date().toISOString() at the time the host entry is built
EntryTimestamp == Chars("2024-05-01T10:00:00.000Z")

\* A run before connectCommand has executed anything.
NewRun(cfg, interactive) ==
    [pc |-> "start", cfg |-> cfg, interactive |-> interactive,
     loginHosts |-> <<>>, queryHost |-> Undefined, loginHost |-> Undefined,
     partitions |-> <<>>, defaultPartition |-> Undefined, partition |-> Undefined,
     offered |-> Undefined, picked |-> Undefined,
     items |-> <<>>, qos |-> Undefined, account |-> Undefined,
     nodes |-> cfg.defaultNodes, tasksPerNode |-> cfg.defaultTasksPerNode,
     cpusPerTask |-> cfg.defaultCpusPerTask, time |-> cfg.defaultTime,
     extraArgs |-> <<>>, remoteCommand |-> <<>>, alias |-> <<>>, hostEntry |-> <<>>,
     tempConfigPath |-> Undefined, previousRemoteConfig |-> Undefined,
     connected |-> FALSE, stop |-> [at |-> "none", cause |-> "none"], trace |-> <<>>]

\* What a run did, in order: prompts answered, messages shown, queries that
\* failed and side effects.
Ev(kind, at, detail) == [kind |-> kind, at |-> at, detail |-> detail]
Log(run, ev) == [run EXCEPT !.trace = Append(@, ev)]

\* `return` before the end of connectCommand: after an error message
\* (cause "error") or silently (cause "dismissed": the prompt was dismissed,
\* "empty": the answer was empty).
Stop(run, step, cause) ==
    LET shown == IF cause = "error" THEN Log(run, Ev("error", step, "showErrorMessage"))
                 ELSE run
    IN [shown EXCEPT !.pc = "stopped", !.stop = [at |-> step, cause |-> cause]]

\* Lines 395-403: the host entry is built and writeTemporarySshConfig called.
PrepareWrite(run) ==
    [run EXCEPT !.pc = "writing",
                !.hostEntry = buildHostEntry(Trim(run.alias), run.loginHost, run.cfg,
                                             run.remoteCommand, EntryTimestamp)]

\* Lines 362-393: the launch command and the default alias.
BuildLaunch(run) ==
    LET sallocArgs == buildSallocArgs(
                          [partition |-> run.partition, nodes |-> run.nodes,
                           tasksPerNode |-> run.tasksPerNode,
                           cpusPerTask |-> run.cpusPerTask, time |-> run.time,
                           memoryMb |-> run.cfg.defaultMemoryMb,
                           gpuType |-> run.cfg.defaultGpuType,
                           gpuCount |-> run.cfg.defaultGpuCount,
                           qos |-> run.qos, account |-> run.account])
        remoteCommand == buildRemoteCommand(
                             run.cfg, sallocArgs \o run.cfg.extraSallocArgs \o run.extraArgs)
        defaultAlias == buildDefaultAlias(
                            IF run.cfg.sshHostPrefix = <<>> THEN Chars("sciama")
                            ELSE run.cfg.sshHostPrefix,
                            run.loginHost, run.partition, run.nodes, run.cpusPerTask)
        built == [run EXCEPT !.remoteCommand = remoteCommand, !.alias = defaultAlias]
    IN IF remoteCommand = <<>> THEN Stop(run, "BuildLaunchCommand", "error")
       ELSE IF run.interactive THEN [built EXCEPT !.pc = "promptAlias"]
       ELSE PrepareWrite(built)

\* The extra-arguments prompt shown to every run that has it enabled.
ExtraArgsAlwaysPrompted(run) ==
    IF run.cfg.promptForExtraSallocArgs
    THEN [run EXCEPT !.pc = "promptExtra"]
    ELSE BuildLaunch(run)

\* Lines 350-360.
ExtraArgs(run) ==
    IF run.interactive /\ run.cfg.promptForExtraSallocArgs
    THEN [run EXCEPT !.pc = "promptExtra"]
    ELSE BuildLaunch(run)

\* Lines 299-348.
Sizing(run) ==
    IF run.interactive THEN [run EXCEPT !.pc = "promptNodes"]
    ELSE IF run.nodes < 1 \/ run.tasksPerNode < 1 \/ run.cpusPerTask < 1 \/ run.time = <<>>
         THEN Stop(run, "SelectSizing", "error")
    ELSE ExtraArgs(run)

\* Lines 263-297: with the login host chosen (cause: why it may be missing).
AfterHost(run, cause) ==
    IF Falsy(run.loginHost) THEN Stop(run, "SelectHost", cause)
    ELSE IF run.interactive THEN [run EXCEPT !.pc = "queryPartitions"]
    ELSE Sizing([run EXCEPT !.partition =
                    IF run.cfg.defaultPartition = <<>> THEN Undefined
                    ELSE run.cfg.defaultPartition])

\* The same without the check for an empty list.
SelectHostUnchecked(run, hosts) ==
    LET resolved == [run EXCEPT !.loginHosts = hosts]
    IN IF Len(hosts) = 1 \/ ~run.interactive
       THEN AfterHost([resolved EXCEPT !.loginHost =
                          IF hosts = <<>> THEN Undefined ELSE hosts[1]], "empty")
       ELSE [resolved EXCEPT !.pc = "pickHost"]

\* Lines 248-262: with the hosts resolveLoginHosts returned.
SelectHost(run, hosts) ==
    LET resolved == [run EXCEPT !.loginHosts = hosts]
    IN IF Len(hosts) = 0 THEN Stop(resolved, "ResolveHosts", "error")
       ELSE IF Len(hosts) = 1 \/ ~run.interactive
            THEN AfterHost([resolved EXCEPT !.loginHost = hosts[1]], "empty")
       ELSE [resolved EXCEPT !.pc = "pickHost"]

\* resolveLoginHosts, lines 467-477: after the optional discovery.
FinishResolve(run, hosts) ==
    IF uniqueList(hosts) = <<>>
    THEN [run EXCEPT !.pc = "manualHostPrompt", !.loginHosts = <<>>]
    ELSE SelectHost(run, uniqueList(hosts))

\* connectCommand without its restore block.
AfterConnectNoRestore(run) == [run EXCEPT !.pc = "done"]

\* Lines 436-442: after the connect attempt.
AfterConnect(run) ==
    IF run.cfg.restoreSshConfigAfterConnect THEN [run EXCEPT !.pc = "restoreDelay"]
    ELSE [run EXCEPT !.pc = "done"]

(***************************************************************************)
(* connectCommand: the steps.  An answer of Undefined is a dismissed       *)
(* prompt (showQuickPick / showInputBox resolve to undefined).             *)
(***************************************************************************)
ConnectFrame == UNCHANGED <<pc, input, result, cmdIdx, lastInfo, execLog, cache>>
SetRun(r, run) == runs' = [runs EXCEPT ![r] = run]
At(r, where) == r \in DOMAIN runs /\ runs[r].pc = where

\* How an answer is recorded in the trace.
AnswerKind(answer) ==
    IF answer = Undefined THEN "dismissed" ELSE IF Trim(answer) = <<>> THEN "empty" ELSE "value"

HostAnswers == {Undefined, <<>>, Chars("login3.example.com")}
DiscoveryOutputs == {<<>>, Chars("login1.example.com\nlogin2.example.com login1.example.com")}
PartitionOutputs == {<<>>, Chars("cpu gpu*")}
ListOutputs == {<<>>, Chars("normal")}
TimeAnswers == {Undefined, Chars("02:00:00")}
ExtraAnswers == {Undefined, <<>>, Chars("--gres=gpu:1  --mem=32G")}
CustomAlias == Chars(" my node ")

\* connectCommand is called: lines 241-247 and resolveLoginHosts up to its
\* first await (lines 445-453).
StartConnect(r) ==
    /\ At(r, "start")
    /\ LET run == runs[r]
           cfg == run.cfg
           hosts == cfg.loginHosts
           queryHost == IF cfg.loginHostsQueryHost # <<>> THEN cfg.loginHostsQueryHost
                        ELSE IF hosts # <<>> THEN hosts[1] ELSE Undefined
       IN SetRun(r, IF cfg.loginHostsCommand = <<>> THEN FinishResolve(run, hosts)
                    ELSE IF Falsy(queryHost)
                         THEN [run EXCEPT !.pc = "queryHostPrompt", !.loginHosts = hosts]
                    ELSE [run EXCEPT !.pc = "discover", !.loginHosts = hosts,
                                     !.queryHost = queryHost])
    /\ UNCHANGED <<files, settings>>
    /\ ConnectFrame

\* resolveLoginHosts: the 'Login host for discovery' input box is answered.
AnswerQueryHost(r) ==
    /\ At(r, "queryHostPrompt")
    /\ \E answer \in HostAnswers :
        LET run == Log(runs[r], Ev("prompt", "queryHost", AnswerKind(answer)))
        IN SetRun(r, IF Falsy(answer) THEN FinishResolve(run, run.loginHosts)
                     ELSE [run EXCEPT !.pc = "discover", !.queryHost = answer])
    /\ UNCHANGED <<files, settings>>
    /\ ConnectFrame

\* resolveLoginHosts: the discovery command returned its output.
DiscoveryReturns(r) ==
    /\ At(r, "discover")
    /\ \E output \in DiscoveryOutputs :
        LET discovered == parseSimpleList(Trim(output))
        IN SetRun(r, FinishResolve(runs[r], IF Len(discovered) > 0 THEN discovered
                                            ELSE runs[r].loginHosts))
    /\ UNCHANGED <<files, settings>>
    /\ ConnectFrame

\* resolveLoginHosts without its try/catch: the failure ends the run.
DiscoveryFailsAborts(r) ==
    /\ At(r, "discover")
    /\ SetRun(r, Stop(Log(runs[r], Ev("warning", "ResolveHosts", "Failed to query login hosts")),
                      "ResolveHosts", "error"))
    /\ UNCHANGED <<files, settings>>
    /\ ConnectFrame

\* resolveLoginHosts: the discovery command failed (or timed out).
DiscoveryFails(r) ==
    /\ At(r, "discover")
    /\ LET run == Log(runs[r], Ev("warning", "ResolveHosts", "Failed to query login hosts"))
       IN SetRun(r, FinishResolve(run, run.loginHosts))
    /\ UNCHANGED <<files, settings>>
    /\ ConnectFrame

\* resolveLoginHosts: the 'Login host' input box is answered.
AnswerManualHost(r) ==
    /\ At(r, "manualHostPrompt")
    /\ \E answer \in HostAnswers \cup {Chars(" ")} :
        LET run == Log(runs[r], Ev("prompt", "manualHost", AnswerKind(answer)))
        IN SetRun(r, SelectHost(run, IF Falsy(answer) THEN <<>> ELSE <<Trim(answer)>>))
    /\ UNCHANGED <<files, settings>>
    /\ ConnectFrame

\* pickFromList('Select login host'): 0 is 'Enter manually', k > 0 the k-th
\* host, -1 a dismissed pick.
PickHost(r) ==
    /\ At(r, "pickHost")
    /\ \E pick \in (-1)..Len(runs[r].loginHosts) :
        LET run == Log(runs[r], Ev("prompt", "loginHost",
                                   IF pick = -1 THEN "dismissed" ELSE "value"))
        IN SetRun(r, IF pick = -1 THEN AfterHost(run, "dismissed")
                     ELSE IF pick = 0 THEN [run EXCEPT !.pc = "enterHost"]
                     ELSE AfterHost([run EXCEPT !.loginHost = run.loginHosts[pick]], "empty"))
    /\ UNCHANGED <<files, settings>>
    /\ ConnectFrame

\* pickFromList: the 'Enter value' input box after 'Enter manually'.
EnterHost(r) ==
    /\ At(r, "enterHost")
    /\ \E answer \in HostAnswers :
        LET run == Log(runs[r], Ev("prompt", "loginHostManual", AnswerKind(answer)))
            manual == IF answer = Undefined \/ Trim(answer) = <<>> THEN Undefined
                      ELSE Trim(answer)
        IN SetRun(r, AfterHost([run EXCEPT !.loginHost = manual], AnswerKind(answer)))
    /\ UNCHANGED <<files, settings>>
    /\ ConnectFrame

\* The cluster-reported default offered before the configured one.
OfferedDefaultReported(cfg, reported) ==
    IF ~Falsy(reported) THEN reported
    ELSE IF cfg.defaultPartition # <<>> THEN cfg.defaultPartition ELSE Undefined

\* Line 284: cfg.defaultPartition || defaultPartition, the default offered by
\* pickPartition.
OfferedDefault(cfg, reported) ==
    IF cfg.defaultPartition # <<>> THEN cfg.defaultPartition ELSE reported

\* The label of the first item of pickPartition's quick pick.
UseClusterDefault == Chars("Use cluster default")

\* queryPartitions returned: no command configured (no partitions) or the
\* command's output parsed; pickPartition is called with the default offered.
QueryPartitionsReturns(r) ==
    /\ At(r, "queryPartitions")
    /\ \E output \in (IF runs[r].cfg.partitionCommand = <<>> THEN {<<>>} ELSE PartitionOutputs) :
        LET parsed == parsePartitionOutput(Trim(output))
        IN SetRun(r, [runs[r] EXCEPT !.pc = "pickPartition",
                                     !.partitions = parsed.partitions,
                                     !.defaultPartition = parsed.defaultPartition,
                                     !.offered = OfferedDefault(runs[r].cfg,
                                                                parsed.defaultPartition)])
    /\ UNCHANGED <<files, settings>>
    /\ ConnectFrame

\* queryPartitions without its try/catch: the failure ends the run.
QueryPartitionsFailsAborts(r) ==
    /\ At(r, "queryPartitions")
    /\ runs[r].cfg.partitionCommand # <<>>
    /\ SetRun(r, [Log(runs[r], Ev("warning", "QueryResources", "Failed to query partitions"))
                    EXCEPT !.pc = "stopped",
                           !.stop = [at |-> "QueryResources", cause |-> "error"]])
    /\ UNCHANGED <<files, settings>>
    /\ ConnectFrame

\* queryPartitions: the command failed; a warning and no partitions.
QueryPartitionsFails(r) ==
    /\ At(r, "queryPartitions")
    /\ runs[r].cfg.partitionCommand # <<>>
    /\ SetRun(r, [Log(runs[r], Ev("warning", "QueryResources", "Failed to query partitions"))
                    EXCEPT !.pc = "pickPartition",
                           !.offered = OfferedDefault(runs[r].cfg, Undefined)])
    /\ UNCHANGED <<files, settings>>
    /\ ConnectFrame

\* pickPartition: an input box when there are no partitions (the answer
\* trimmed, blank meaning unset), else a quick pick where 0 is 'Use cluster
\* default', k > 0 the k-th partition and -1 a dismissed pick.
PickPartition(r) ==
    /\ At(r, "pickPartition")
    /\ \/ /\ runs[r].partitions = <<>>
          /\ \E answer \in {Undefined, <<>>, Chars(" gpu ")} :
              LET run == Log(runs[r], Ev("prompt", "partition", AnswerKind(answer)))
              IN SetRun(r, IF answer = Undefined THEN Stop(run, "SelectPartition", "dismissed")
                           ELSE [run EXCEPT !.pc = "queryQos",
                                            !.partition = IF Trim(answer) = <<>> THEN Undefined
                                                          ELSE Trim(answer)])
       \/ /\ runs[r].partitions # <<>>
          /\ \E pick \in (-1)..Len(runs[r].partitions) :
              LET run == Log(runs[r], Ev("prompt", "partition",
                                         IF pick = -1 THEN "dismissed" ELSE "value"))
                  label == IF pick = 0 THEN UseClusterDefault ELSE run.partitions[pick]
              IN SetRun(r, IF pick = -1 THEN Stop(run, "SelectPartition", "dismissed")
                           ELSE [run EXCEPT !.pc = "queryQos",
                                            !.picked = label,
                                            !.partition = IF label = UseClusterDefault
                                                          THEN Undefined ELSE label])
    /\ UNCHANGED <<files, settings>>
    /\ ConnectFrame

\* Lines 290-294 after pickOptionalValue returned value for the QoS (the
\* account query follows) or for the account (sizing follows).
AfterOptional(run, value) ==
    IF run.pc \in {"queryQos", "pickQos"}
    THEN [run EXCEPT !.pc = "queryAccount", !.qos = value, !.items = <<>>]
    ELSE Sizing([run EXCEPT !.account = value, !.items = <<>>])

OptionalCommand(run) ==
    IF run.pc = "queryQos" THEN run.cfg.qosCommand ELSE run.cfg.accountCommand

\* querySimpleList returned (no command: no items); pickOptionalValue shows
\* its quick pick only when there are items.
QuerySimpleListReturns(r) ==
    /\ At(r, "queryQos") \/ At(r, "queryAccount")
    /\ \E output \in (IF OptionalCommand(runs[r]) = <<>> THEN {<<>>} ELSE ListOutputs) :
        LET items == parseSimpleList(Trim(output))
        IN SetRun(r, IF Len(items) = 0 THEN AfterOptional(runs[r], Undefined)
                     ELSE [runs[r] EXCEPT !.items = items,
                                          !.pc = IF runs[r].pc = "queryQos" THEN "pickQos"
                                                 ELSE "pickAccount"])
    /\ UNCHANGED <<files, settings>>
    /\ ConnectFrame

\* querySimpleList without its try/catch: the failure ends the run.
QuerySimpleListFailsAborts(r) ==
    /\ At(r, "queryQos") \/ At(r, "queryAccount")
    /\ OptionalCommand(runs[r]) # <<>>
    /\ SetRun(r, Stop(runs[r], IF runs[r].pc = "queryQos" THEN "SelectQos" ELSE "SelectAccount",
                      "error"))
    /\ UNCHANGED <<files, settings>>
    /\ ConnectFrame

\* querySimpleList: the command failed; a warning and no items.
QuerySimpleListFails(r) ==
    /\ At(r, "queryQos") \/ At(r, "queryAccount")
    /\ OptionalCommand(runs[r]) # <<>>
    /\ SetRun(r, AfterOptional(
                     Log(runs[r], Ev("warning",
                                     IF runs[r].pc = "queryQos" THEN "SelectQos"
                                     ELSE "SelectAccount",
                                     "Failed to query resources")),
                     Undefined))
    /\ UNCHANGED <<files, settings>>
    /\ ConnectFrame

\* pickOptionalValue: 0 is 'None', k > 0 the k-th item, -1 a dismissed pick.
PickOptional(r) ==
    /\ At(r, "pickQos") \/ At(r, "pickAccount")
    /\ \E pick \in (-1)..Len(runs[r].items) :
        LET run == Log(runs[r], Ev("prompt",
                                   IF runs[r].pc = "pickQos" THEN "qos" ELSE "account",
                                   IF pick = -1 THEN "dismissed"
                                   ELSE IF pick = 0 THEN "none" ELSE "value"))
        IN SetRun(r, AfterOptional(run, IF pick < 1 THEN Undefined ELSE run.items[pick]))
    /\ UNCHANGED <<files, settings>>
    /\ ConnectFrame

\* promptNumber for nodes, tasks per node and CPUs per task: the input box
\* accepts only an integer >= 1; 0 stands for a dismissed prompt.
PromptNumber(r) ==
    /\ At(r, "promptNodes") \/ At(r, "promptTasks") \/ At(r, "promptCpus")
    /\ \E value \in 0..(IF runs[r].pc = "promptNodes" THEN MaxNodes ELSE 1) :
        LET at == runs[r].pc
            field == IF at = "promptNodes" THEN "nodes"
                     ELSE IF at = "promptTasks" THEN "tasksPerNode" ELSE "cpusPerTask"
            run == Log(runs[r], Ev("prompt", field,
                                   IF value = 0 THEN "dismissed" ELSE "value"))
        IN SetRun(r, IF value = 0 THEN Stop(run, "SelectSizing", "dismissed")
                     ELSE IF at = "promptNodes"
                          THEN [run EXCEPT !.nodes = value, !.pc = "promptTasks"]
                     ELSE IF at = "promptTasks"
                          THEN [run EXCEPT !.tasksPerNode = value, !.pc = "promptCpus"]
                     ELSE [run EXCEPT !.cpusPerTask = value, !.pc = "promptTime"])
    /\ UNCHANGED <<files, settings>>
    /\ ConnectFrame

\* promptTime: the input box accepts only HH:MM:SS or D-HH:MM:SS.
PromptTime(r) ==
    /\ At(r, "promptTime")
    /\ \E answer \in TimeAnswers :
        LET run == Log(runs[r], Ev("prompt", "time", AnswerKind(answer)))
        IN SetRun(r, IF answer = Undefined THEN Stop(run, "SelectSizing", "dismissed")
                     ELSE ExtraArgs([run EXCEPT !.time = Trim(answer)]))
    /\ UNCHANGED <<files, settings>>
    /\ ConnectFrame

\* The 'Extra salloc args (optional)' input box.
PromptExtraArgs(r) ==
    /\ At(r, "promptExtra")
    /\ \E answer \in ExtraAnswers :
        LET run == Log(runs[r], Ev("prompt", "extraArgs", AnswerKind(answer)))
        IN SetRun(r, BuildLaunch([run EXCEPT !.extraArgs =
                                     IF answer # Undefined /\ Len(Trim(answer)) > 0
                                     THEN splitArgs(Trim(answer)) ELSE <<>>]))
    /\ UNCHANGED <<files, settings>>
    /\ ConnectFrame

\* The 'SSH host alias' input box, pre-filled with the default alias; it
\* accepts only an alias that is not blank.
PromptAlias(r) ==
    /\ At(r, "promptAlias")
    /\ \E answer \in {Undefined, runs[r].alias, CustomAlias} :
        LET run == Log(runs[r], Ev("prompt", "alias", AnswerKind(answer)))
        IN SetRun(r, IF Falsy(answer) THEN Stop(run, "BuildAlias", "dismissed")
                     ELSE PrepareWrite([run EXCEPT !.alias = Trim(answer)]))
    /\ UNCHANGED <<files, settings>>
    /\ ConnectFrame

\* writeTemporarySshConfig resolved: the overlay is written (lines 975-988).
WriteReturns(r) ==
    /\ At(r, "writing")
    /\ LET run == runs[r]
           basePath == TemporaryConfigPath(run.cfg)
       IN /\ files' = [path \in (DOMAIN files) \cup {basePath} |->
                          IF path = basePath THEN TemporaryConfigContent(run.hostEntry)
                          ELSE files[path]]
          /\ SetRun(r, [Log(run, Ev("write", "WriteConfig", "overlay"))
                          EXCEPT !.pc = "ensure", !.tempConfigPath = basePath])
    /\ UNCHANGED settings
    /\ ConnectFrame

\* The catch without its return.
WriteFailsNoReturn(r) ==
    /\ At(r, "writing")
    /\ SetRun(r, [Log(runs[r], Ev("error", "WriteConfig", "showErrorMessage"))
                    EXCEPT !.pc = "ensure"])
    /\ UNCHANGED <<files, settings>>
    /\ ConnectFrame

\* writeTemporarySshConfig rejected: the catch of lines 404-407.
WriteFails(r) ==
    /\ At(r, "writing")
    /\ SetRun(r, Stop(runs[r], "WriteConfig", "error"))
    /\ UNCHANGED <<files, settings>>
    /\ ConnectFrame

\* ensureRemoteSshSettings: nothing to do when enableRemoteCommand is set,
\* else the warning with 'Enable' / 'Ignore' is shown.
EnsureRemoteSshSettings(r) ==
    /\ At(r, "ensure")
    /\ SetRun(r, [runs[r] EXCEPT !.pc = IF settings.enableRemoteCommand THEN "capture"
                                         ELSE "enablePrompt"])
    /\ UNCHANGED <<files, settings>>
    /\ ConnectFrame

\* ensureRemoteSshSettings: the warning is answered.
AnswerEnablePrompt(r) ==
    /\ At(r, "enablePrompt")
    /\ \E answer \in {"Enable", "Ignore", "dismissed"} :
        /\ settings' = IF answer = "Enable" THEN [settings EXCEPT !.enableRemoteCommand = TRUE]
                       ELSE settings
        /\ SetRun(r, [Log(runs[r], Ev("prompt", "enableRemoteCommand", answer))
                        EXCEPT !.pc = "capture"])
    /\ UNCHANGED files
    /\ ConnectFrame

\* Lines 410-412: the pointer is read and its update requested.
CaptureAndSwap(r) ==
    /\ At(r, "capture")
    /\ SetRun(r, [runs[r] EXCEPT !.pc = "swapping",
                                 !.previousRemoteConfig =
                                     IF Falsy(settings.configFile) THEN <<>>
                                     ELSE settings.configFile])
    /\ UNCHANGED <<files, settings>>
    /\ ConnectFrame

\* Line 412: the update of remote.SSH.configFile takes effect.
SwapCommitted(r) ==
    /\ At(r, "swapping")
    /\ settings' = [settings EXCEPT !.configFile = runs[r].tempConfigPath]
    /\ SetRun(r, [Log(runs[r], Ev("swap", "ApplyAndConnect", "configFile"))
                    EXCEPT !.pc = "refresh"])
    /\ UNCHANGED files
    /\ ConnectFrame

\* The connect action requested but not awaited.
RefreshHostsConnectNotAwaited(r) ==
    /\ At(r, "refresh")
    /\ SetRun(r, AfterConnect(runs[r]))
    /\ UNCHANGED <<files, settings>>
    /\ ConnectFrame

\* Lines 413-416 and 432-434: the delay and the refresh are over.
RefreshHosts(r) ==
    /\ At(r, "refresh")
    /\ SetRun(r, IF runs[r].cfg.connectAfterCreate THEN [runs[r] EXCEPT !.pc = "activate"]
                 ELSE AfterConnect(Log(runs[r], Ev("info", "ApplyAndConnect", "created"))))
    /\ UNCHANGED <<files, settings>>
    /\ ConnectFrame

\* A failed connect ending the run.
ConnectedOrAbort(run, connected) ==
    IF connected THEN AfterConnect([run EXCEPT !.connected = TRUE])
    ELSE Stop(run, "ApplyAndConnect", "error")

\* Lines 422-431: connectToHost returned `connected`.
Connected(run, connected) ==
    AfterConnect([(IF connected THEN run
                   ELSE Log(run, Ev("warning", "ApplyAndConnect", "auto-connect failed")))
                  EXCEPT !.connected = connected])

\* connectToHost: the Remote-SSH extension is not installed.
ConnectUnavailable(r) ==
    /\ At(r, "activate")
    /\ SetRun(r, Connected(runs[r], FALSE))
    /\ UNCHANGED <<files, settings>>
    /\ ConnectFrame

\* connectToHost: the first connect command is executed for the alias.
TriggerConnect(r) ==
    /\ At(r, "activate")
    /\ SetRun(r, [Log(runs[r], Ev("connect", "ApplyAndConnect", "executeCommand"))
                    EXCEPT !.pc = "connecting"])
    /\ UNCHANGED <<files, settings>>
    /\ ConnectFrame

\* connectToHost: a connect command succeeded, or all of them failed.
ConnectReturns(r) ==
    /\ At(r, "connecting")
    /\ \E connected \in BOOLEAN : SetRun(r, Connected(runs[r], connected))
    /\ UNCHANGED <<files, settings>>
    /\ ConnectFrame

\* The restore always clearing the pointer.
RestoreWriteUnset(r) ==
    /\ At(r, "restoreDelay")
    /\ settings' = [settings EXCEPT !.configFile = Undefined]
    /\ SetRun(r, [Log(runs[r], Ev("restore", "ScheduleRestore", "configFile"))
                    EXCEPT !.pc = "done"])
    /\ UNCHANGED files
    /\ ConnectFrame

\* Lines 437-441: after the delay the pointer is set to the captured value
\* (unset when that is empty) and connectCommand returns.
RestoreWrite(r) ==
    /\ At(r, "restoreDelay")
    /\ settings' = [settings EXCEPT !.configFile =
                       IF runs[r].previousRemoteConfig = <<>> THEN Undefined
                       ELSE runs[r].previousRemoteConfig]
    /\ SetRun(r, [Log(runs[r], Ev("restore", "ScheduleRestore", "configFile"))
                    EXCEPT !.pc = "done"])
    /\ UNCHANGED files
    /\ ConnectFrame

(***************************************************************************)
(* connectCommand: configurations, initial states and specifications.      *)
(***************************************************************************)
Login1 == Chars("login1.example.com")
Login2 == Chars("login2.example.com")

\* A configuration as getConfigWithOverrides returns it (strings trimmed).
BaseCfg ==
    [loginHosts |-> <<Login1>>, loginHostsCommand |-> <<>>, loginHostsQueryHost |-> <<>>,
     partitionCommand |-> Chars("sinfo -h -o %P"),
     qosCommand |-> Chars("sacctmgr -n show qos format=name"),
     accountCommand |-> <<>>,
     user |-> Chars("alice"), identityFile |-> Chars("~/.ssh/id_rsa"),
     forwardAgent |-> TRUE, requestTTY |-> TRUE,
     moduleLoad |-> <<>>, proxyCommand |-> Chars("python vscode-shell-proxy.py"),
     proxyArgs |-> <<>>, extraSallocArgs |-> <<>>, promptForExtraSallocArgs |-> FALSE,
     defaultPartition |-> <<>>, defaultNodes |-> 1, defaultTasksPerNode |-> 1,
     defaultCpusPerTask |-> 8, defaultTime |-> Chars("24:00:00"),
     defaultMemoryMb |-> 0, defaultGpuType |-> <<>>, defaultGpuCount |-> 0,
     sshHostPrefix |-> <<>>, connectAfterCreate |-> TRUE,
     restoreSshConfigAfterConnect |-> TRUE, temporarySshConfigPath |-> <<>>,
     additionalSshOptions |-> <<>>]

\* The same without the partition and QoS queries.
QuietCfg == [BaseCfg EXCEPT !.partitionCommand = <<>>, !.qosCommand = <<>>]

\* Configurations of the runs started from the command palette or the view.
ConnectCfgs == {
    BaseCfg,
    QuietCfg,
    [QuietCfg EXCEPT !.loginHosts = <<>>],
    [QuietCfg EXCEPT !.loginHosts = <<Login1, Login2, Login1>>],
    [QuietCfg EXCEPT !.loginHosts = <<>>, !.loginHostsCommand = Chars("cat /etc/login-hosts")],
    [QuietCfg EXCEPT !.loginHostsCommand = Chars("cat /etc/login-hosts")],
    [QuietCfg EXCEPT !.accountCommand = Chars("sacctmgr -n show assoc format=account")],
    [QuietCfg EXCEPT !.promptForExtraSallocArgs = TRUE, !.defaultPartition = Chars("gpu"),
                     !.moduleLoad = Chars("module load anaconda3"),
                     !.proxyArgs = <<Chars("--verbose"), <<>>, Chars("--port=0")>>,
                     !.extraSallocArgs = <<Chars("--exclusive")>>,
                     !.defaultMemoryMb = 64000, !.defaultGpuCount = 2],
    [QuietCfg EXCEPT !.partitionCommand = Chars("sinfo -h -o %P"),
                     !.defaultPartition = Chars("cpu")],
    [QuietCfg EXCEPT !.proxyCommand = <<>>, !.proxyArgs = <<Chars("--verbose")>>],
    [QuietCfg EXCEPT !.defaultNodes = 0],
    [QuietCfg EXCEPT !.defaultTime = <<>>],
    [QuietCfg EXCEPT !.defaultTime = Chars("2 hours")],
    [QuietCfg EXCEPT !.proxyCommand = <<>>, !.moduleLoad = Chars("module load anaconda3")],
    [QuietCfg EXCEPT !.connectAfterCreate = FALSE],
    [QuietCfg EXCEPT !.restoreSshConfigAfterConnect = FALSE,
                     !.temporarySshConfigPath = Chars("~/.ssh/sciama overlay")],
    [QuietCfg EXCEPT !.connectAfterCreate = FALSE, !.restoreSshConfigAfterConnect = FALSE,
                     !.moduleLoad = Chars("module load anaconda3"),
                     !.extraSallocArgs = <<Chars("--gres=gpu:1")>>]
}

\* The user's own SSH configuration files and Remote-SSH settings.
MainSshConfig == Chars("/home/user/.ssh/config")
WorkSshConfig == Chars("/home/user/.ssh/config_work")
UserFiles == [path \in {MainSshConfig, WorkSshConfig} |-> Chars("Host *\n  ServerAliveInterval 60\n")]
UserSettings == [configFile : {Undefined, WorkSshConfig}, enableRemoteCommand : BOOLEAN]

\* One run, interactive (the command) or not (the view's Save + Connect).
InitConnect ==
    /\ pc = "connect"
    /\ settings \in UserSettings
    /\ files = UserFiles
    /\ input = [fn |-> "connectCommand", settings |-> settings, files |-> files]
    /\ result = NoResult
    /\ CacheIdle
    /\ FetchIdle
    /\ \E cfg \in ConnectCfgs, interactive \in BOOLEAN :
           runs = [r \in {"first"} |-> NewRun(cfg, interactive)]

NextConnect ==
    \E r \in {"first"} :
        \/ StartConnect(r)
        \/ AnswerQueryHost(r)
        \/ DiscoveryReturns(r)
        \/ DiscoveryFails(r)
        \/ AnswerManualHost(r)
        \/ PickHost(r)
        \/ EnterHost(r)
        \/ QueryPartitionsReturns(r)
        \/ QueryPartitionsFails(r)
        \/ PickPartition(r)
        \/ QuerySimpleListReturns(r)
        \/ QuerySimpleListFails(r)
        \/ PickOptional(r)
        \/ PromptNumber(r)
        \/ PromptTime(r)
        \/ PromptExtraArgs(r)
        \/ PromptAlias(r)
        \/ WriteReturns(r)
        \/ WriteFails(r)
        \/ EnsureRemoteSshSettings(r)
        \/ AnswerEnablePrompt(r)
        \/ CaptureAndSwap(r)
        \/ SwapCommitted(r)
        \/ RefreshHosts(r)
        \/ ConnectUnavailable(r)
        \/ TriggerConnect(r)
        \/ ConnectReturns(r)
        \/ RestoreWrite(r)

SpecConnect == InitConnect /\ [][NextConnect]_vars

\* Once the pointer update is requested nothing waits for the user: the
\* settings write, the timers and the commands of Remote-SSH complete.
ApplyStep(r) ==
    \/ SwapCommitted(r)
    \/ RefreshHosts(r)
    \/ ConnectUnavailable(r)
    \/ TriggerConnect(r)
    \/ ConnectReturns(r)
    \/ RestoreWrite(r)

SpecConnectFair == SpecConnect /\ WF_vars(ApplyStep("first"))

\* Two runs started by the view's Save + Connect (interactive: false), the
\* second before the first has finished; both use the default overlay path.
GpuCfg == [QuietCfg EXCEPT !.defaultPartition = Chars("gpu")]

InitOverlap ==
    /\ pc = "connect"
    /\ settings \in UserSettings
    /\ files = UserFiles
    /\ input = [fn |-> "connectCommand", settings |-> settings, files |-> files]
    /\ result = NoResult
    /\ CacheIdle
    /\ FetchIdle
    /\ \E first \in {QuietCfg, [QuietCfg EXCEPT !.restoreSshConfigAfterConnect = FALSE]},
          second \in {GpuCfg, [GpuCfg EXCEPT !.connectAfterCreate = FALSE]} :
           runs = [r \in {"first", "second"} |->
                      NewRun(IF r = "first" THEN first ELSE second, FALSE)]

NextOverlap ==
    \E r \in {"first", "second"} :
        \/ StartConnect(r)
        \/ WriteReturns(r)
        \/ WriteFails(r)
        \/ EnsureRemoteSshSettings(r)
        \/ AnswerEnablePrompt(r)
        \/ CaptureAndSwap(r)
        \/ SwapCommitted(r)
        \/ RefreshHosts(r)
        \/ ConnectUnavailable(r)
        \/ TriggerConnect(r)
        \/ ConnectReturns(r)
        \/ RestoreWrite(r)

SpecOverlap == InitOverlap /\ [][NextOverlap]_vars

(***************************************************************************)
(* Claims about connectCommand: cancellation and abort points.             *)
(***************************************************************************)
ConnectRunning == pc = "connect" /\ input.fn = "connectCommand"
EventsOf(run) == {i \in 1..Len(run.trace) : TRUE}
HasEvent(run, kind) == \E i \in EventsOf(run) : run.trace[i].kind = kind
\* The prompts of the connect flow.
FlowPrompts == {"loginHost", "loginHostManual", "partition", "qos", "account", "nodes",
                "tasksPerNode", "cpusPerTask", "time", "extraArgs", "alias"}
IsDismissal(ev) == ev.kind = "prompt" /\ ev.at \in FlowPrompts /\ ev.detail = "dismissed"

\* C11: at every interactive prompt of the connect flow, dismissing the prompt
\* terminates the flow immediately: the dismissal is the last thing the run
\* does (no later prompt, query, overlay write or pointer change).
C11_DismissalTerminates ==
    ConnectRunning =>
        \A r \in DOMAIN runs : \A i \in EventsOf(runs[r]) :
            IsDismissal(runs[r].trace[i]) =>
                i = Len(runs[r].trace) /\ runs[r].pc = "stopped"

HardAbortSteps == {"ResolveHosts", "SelectSizing", "BuildLaunchCommand", "BuildAlias",
                   "WriteConfig"}
Stopped(run) == run.pc = "stopped"
\* A failed query is never the last thing a stopped run did.
QueryFailureContinues(run) ==
    Stopped(run) /\ run.trace # <<>> => run.trace[Len(run.trace)].kind # "warning"

\* C12 as stated: a run that stops for another reason than a dismissed prompt
\* stopped at ResolveHosts, non-interactive SelectSizing, BuildLaunchCommand,
\* BuildAlias or WriteConfig, and a query failure or an empty answer at any
\* other step lets the flow continue.
C12_AsStated ==
    ConnectRunning =>
        \A r \in DOMAIN runs :
            /\ Stopped(runs[r]) /\ runs[r].stop.cause # "dismissed" =>
                   /\ runs[r].stop.at \in HardAbortSteps
                   /\ runs[r].stop.at = "SelectSizing" => ~runs[r].interactive
            /\ QueryFailureContinues(runs[r])

\* C12 amended: as stated, with SelectHost added to the steps that can stop
\* the flow: an empty host (an empty manual entry) stops it silently.
C12_HardAborts ==
    ConnectRunning =>
        \A r \in DOMAIN runs :
            /\ Stopped(runs[r]) /\ runs[r].stop.cause # "dismissed" =>
                   \/ /\ runs[r].stop.cause = "error"
                      /\ runs[r].stop.at \in HardAbortSteps
                      /\ runs[r].stop.at = "SelectSizing" => ~runs[r].interactive
                   \/ /\ runs[r].stop.cause = "empty"
                      /\ runs[r].stop.at = "SelectHost"
            /\ QueryFailureContinues(runs[r])

\* 'Enter manually' was picked and the entry left empty.
C12_Witness ==
    /\ ConnectRunning
    /\ runs["first"].stop = [at |-> "SelectHost", cause |-> "empty"]
    /\ runs["first"].trace[Len(runs["first"].trace)] = Ev("prompt", "loginHostManual", "empty")

RestoredValue(previous) == IF Falsy(previous) THEN Undefined ELSE previous
\* The run has read the pointer and requested its swap.
SwapRequested(run) ==
    run.pc \in {"swapping", "refresh", "activate", "connecting", "restoreDelay", "done"}
\* The run has written its restore: the pointer holds the value the run read
\* before its swap.
RestoreDone(run) ==
    /\ run.pc = "done"
    /\ run.trace # <<>> /\ run.trace[Len(run.trace)].kind = "restore"
    /\ run.previousRemoteConfig = (IF Falsy(input.settings.configFile) THEN <<>>
                                   ELSE input.settings.configFile)
    /\ settings.configFile = RestoredValue(run.previousRemoteConfig)

BothRestored ==
    /\ ConnectRunning
    /\ DOMAIN runs = {"first", "second"}
    /\ \A r \in DOMAIN runs : runs[r].pc = "done" /\ runs[r].cfg.restoreSshConfigAfterConnect

\* C15 as stated: for any interleaving of two runs with restore enabled, once
\* both have finished the pointer holds the value it had before the earliest
\* swap.
C15_AsStated == BothRestored => settings.configFile = input.settings.configFile

\* C15 amended: once both runs have finished the pointer holds the value
\* captured by one of them: the value it had before the earliest swap or,
\* when a run read the pointer after the other's swap, the overlay path.
C15_LastRestoreWins ==
    BothRestored =>
        /\ \E r \in DOMAIN runs : settings.configFile = RestoredValue(runs[r].previousRemoteConfig)
        /\ \A r \in DOMAIN runs :
               runs[r].previousRemoteConfig \in
                   {<<>>, input.settings.configFile,
                    TemporaryConfigPath(runs["first"].cfg), TemporaryConfigPath(runs["second"].cfg)}
        /\ settings.configFile \in
               {input.settings.configFile,
                TemporaryConfigPath(runs["first"].cfg), TemporaryConfigPath(runs["second"].cfg)}

\* Both runs done and the pointer left on the overlay.
C15_Witness ==
    /\ BothRestored
    /\ settings.configFile = TemporaryConfigPath(runs["second"].cfg)
    /\ runs["second"].previousRemoteConfig = TemporaryConfigPath(runs["first"].cfg)

\* C16: whenever a run triggers the connect action for alias A, the file the
\* pointer references at that moment contains the Host block for A.
C16_OverlayHasHost ==
    [][ConnectRunning =>
         \A r \in DOMAIN runs :
             runs[r].pc = "activate" /\ runs'[r].pc = "connecting" =>
                 /\ settings.configFile \in DOMAIN files
                 /\ HasLine(files[settings.configFile],
                            Chars("Host ") \o Trim(runs[r].alias))]_vars

\* C17: the connect flow returns without waiting for the restore: when
\* connectCommand returns, the restore write has not happened yet.
C17_ReturnsBeforeRestore ==
    [][ConnectRunning =>
         \A r \in DOMAIN runs :
             runs[r].pc # "done" /\ runs'[r].pc = "done" => ~HasEvent(runs'[r], "restore")]_vars


\* The positions of the events of a kind in a run's trace.
Positions(run, kind) == {i \in EventsOf(run) : run.trace[i].kind = kind}
\* Every event of kind a comes before every event of kind b.
Before(run, a, b) == \A i \in Positions(run, a), j \in Positions(run, b) : i < j
\* The connect attempt of the run is over: connectToHost returned.
ConnectFinished(run) ==
    \/ ~run.cfg.connectAfterCreate
    \/ run.connected /\ HasEvent(run, "connect")
    \/ \E i \in EventsOf(run) :
           run.trace[i] = Ev("warning", "ApplyAndConnect", "auto-connect failed")

\* C18: in every run the side effects occur in the order overlay write,
\* pointer swap, connect trigger, restore write, each at most once: the swap
\* only after the run's overlay write succeeded, the connect only after the
\* swap, the restore only after the connect attempt has finished.
C18_EffectOrder ==
    ConnectRunning =>
        \A r \in DOMAIN runs :
            LET run == runs[r] IN
            /\ \A kind \in {"write", "swap", "connect", "restore"} :
                   Cardinality(Positions(run, kind)) <= 1
            /\ Before(run, "write", "swap") /\ Before(run, "swap", "connect")
            /\ Before(run, "connect", "restore")
            /\ HasEvent(run, "swap") =>
                   /\ HasEvent(run, "write")
                   /\ run.tempConfigPath \in DOMAIN files
                   /\ files[run.tempConfigPath] = TemporaryConfigContent(run.hostEntry)
            /\ HasEvent(run, "connect") => HasEvent(run, "swap")
            /\ HasEvent(run, "restore") => HasEvent(run, "swap") /\ ConnectFinished(run)

C18_Witness ==
    /\ ConnectRunning
    /\ runs["first"].pc = "done"
    /\ \A kind \in {"write", "swap", "connect", "restore"} : HasEvent(runs["first"], kind)
    /\ runs["first"].connected

\* The run showed the error of a failed overlay write.
WriteFailed(run) ==
    \E i \in EventsOf(run) : run.trace[i] = Ev("error", "WriteConfig", "showErrorMessage")

\* C19: if writing the overlay file fails, connectCommand aborts with the
\* error shown: the pointer is left unchanged, no connect action is triggered
\* and no restore is scheduled.
C19_WriteFailureAborts ==
    ConnectRunning =>
        \A r \in DOMAIN runs :
            WriteFailed(runs[r]) =>
                /\ runs[r].stop = [at |-> "WriteConfig", cause |-> "error"]
                /\ runs[r].pc = "stopped"
                /\ runs[r].trace[Len(runs[r].trace)].kind = "error"
                /\ ~HasEvent(runs[r], "swap") /\ ~HasEvent(runs[r], "connect")
                /\ ~HasEvent(runs[r], "restore")
                /\ settings.configFile = input.settings.configFile
                /\ files = input.files

C19_Witness ==
    /\ ConnectRunning
    /\ WriteFailed(runs["first"])
    /\ runs["first"].interactive
    /\ input.settings.configFile = WorkSshConfig

\* The connect action of the run was attempted and failed.
ConnectFailed(run) ==
    /\ run.cfg.connectAfterCreate
    /\ HasEvent(run, "swap")
    /\ run.pc \notin {"refresh", "activate", "connecting"}
    /\ ~run.connected

PastSizing(run) ==
    \/ run.pc \in {"promptExtra", "promptAlias", "writing", "ensure", "enablePrompt", "capture",
                   "swapping", "refresh", "activate", "connecting", "restoreDelay", "done"}
    \/ Stopped(run) /\ run.stop.at \in {"BuildLaunchCommand", "BuildAlias", "WriteConfig"}

\* C21: a non-interactive run proceeds past the sizing step only if nodes,
\* tasksPerNode and cpusPerTask are positive integers and the wall time matches
\* HH:MM:SS or D-HH:MM:SS; otherwise it stops with an error before any overlay
\* write or pointer change.
C21_SizingValidated ==
    ConnectRunning =>
        \A r \in DOMAIN runs :
            LET run == runs[r] IN
            ~run.interactive =>
                /\ PastSizing(run) =>
                       /\ run.nodes >= 1 /\ run.tasksPerNode >= 1 /\ run.cpusPerTask >= 1
                       /\ timePattern(run.time)
                /\ Stopped(run) /\ run.stop.at = "SelectSizing" =>
                       /\ run.stop.cause = "error"
                       /\ ~HasEvent(run, "write") /\ ~HasEvent(run, "swap")
                       /\ files = input.files /\ settings = input.settings

\* The run went on after the launch command was built.
PastLaunch(run) ==
    \/ run.pc \in {"promptAlias", "writing", "ensure", "enablePrompt", "capture", "swapping",
                   "refresh", "activate", "connecting", "restoreDelay", "done"}
    \/ Stopped(run) /\ run.stop.at \in {"BuildAlias", "WriteConfig"}

\* text.startsWith(head)
StartsWith(text, head) == Len(head) <= Len(text) /\ SubSeq(text, 1, Len(head)) = head

\* The remote command without the optional module-load prefix.
AfterModuleLoad(run) ==
    LET prefix == run.cfg.moduleLoad \o Chars(" && ")
    IN IF run.cfg.moduleLoad # <<>> /\ StartsWith(run.remoteCommand, prefix)
       THEN SubSeq(run.remoteCommand, Len(prefix) + 1, Len(run.remoteCommand))
       ELSE run.remoteCommand

\* C22: with no proxy command configured the run stops at the launch command,
\* whatever proxyArgs and moduleLoad are: no overlay is written and the pointer
\* is unchanged; so every host entry written has a non-empty RemoteCommand
\* that starts, after the optional module-load prefix, with the proxy command.
C22_EmptyProxyAborts ==
    ConnectRunning =>
        \A r \in DOMAIN runs :
            LET run == runs[r] IN
            /\ run.cfg.proxyCommand = <<>> =>
                   /\ ~PastLaunch(run)
                   /\ ~HasEvent(run, "write") /\ ~HasEvent(run, "swap")
                   /\ files = input.files /\ settings = input.settings
            /\ HasEvent(run, "write") =>
                   /\ run.remoteCommand # <<>>
                   /\ run.cfg.proxyCommand # <<>>
                   /\ StartsWith(AfterModuleLoad(run), run.cfg.proxyCommand)
                   /\ HasLine(files[run.tempConfigPath],
                              Chars("  RemoteCommand ") \o run.remoteCommand)

\* The characters an alias may consist of.
SafeAlias(alias) == alias # <<>> /\ \A i \in 1..Len(alias) : alias[i] \in AliasChars

\* C23: the alias of every host entry written to the overlay is non-empty and
\* consists only of characters in [A-Za-z0-9_-], in non-interactive mode and in
\* interactive mode, where the user may override the default alias.
C23_AliasSafe ==
    ConnectRunning =>
        \A r \in DOMAIN runs :
            HasEvent(runs[r], "write") =>
                /\ SafeAlias(runs[r].alias)
                /\ HasLine(files[runs[r].tempConfigPath], Chars("Host ") \o runs[r].alias)

(***************************************************************************)
(* Claims about fetchClusterInfo: acceptance, order and fallback.          *)
(***************************************************************************)
\* The raw text shows the GPU marker but no parsed partition has GPUs.
GpuGap(output) ==
    LET info == parsePartitionInfoOutput(output)
    IN /\ Includes(output, Chars("gpu:"))
       /\ \A i \in 1..Len(info.partitions) : info.partitions[i].gpuMax <= 0
\* Some partition of the parse has CPUs, memory or GPUs.
Meaningful(output) ==
    LET info == parsePartitionInfoOutput(output)
    IN \E i \in 1..Len(info.partitions) :
           info.partitions[i].cpus > 0 \/ info.partitions[i].memMb > 0
               \/ info.partitions[i].gpuMax > 0
\* fetchClusterInfo returned from inside its loop.
EarlyReturn ==
    /\ pc = "returned" /\ input.fn = "fetchClusterInfo"
    /\ cmdIdx <= Len(FetchCommands(input.cfg))

\* C24: fetchClusterInfo returns a candidate's parse early only if the
\* candidate's raw output has a maximum '|'-field count of at least 5, the
\* parse is meaningful and the GPU marker does not appear without a
\* parsed GPU; the checks are applied in the order GPU marker, field count,
\* meaningful.
C24_EarlyReturnAccepted ==
    input.fn = "fetchClusterInfo" =>
        /\ \A i \in 1..Len(execLog) :
               LET e == execLog[i] IN
               e.ok =>
                   /\ e.accepted =>
                          /\ ~GpuGap(e.output)
                          /\ getMaxFieldCount(e.output) >= 5
                          /\ Meaningful(e.output)
                   /\ e.verdict = "gpu" <=> GpuGap(e.output)
                   /\ e.verdict = "fields" <=>
                          ~GpuGap(e.output) /\ getMaxFieldCount(e.output) < 5
                   /\ e.verdict = "meaningless" <=>
                          /\ ~GpuGap(e.output) /\ getMaxFieldCount(e.output) >= 5
                          /\ ~Meaningful(e.output)
        /\ EarlyReturn =>
               /\ execLog # <<>> /\ execLog[Len(execLog)].accepted
               /\ result = parsePartitionInfoOutput(execLog[Len(execLog)].output)

\* An early return after a meaningful candidate with too few columns and a
\* candidate whose GPU data did not parse.
C24_Witness ==
    /\ EarlyReturn
    /\ Len(execLog) = 3
    /\ execLog[1].verdict = "fields" /\ Meaningful(execLog[1].output)
    /\ execLog[2].verdict = "gpu"

\* The candidates in the order custom (when set), per node, per partition.
ExpectedCandidates ==
    (IF input.cfg.partitionInfoCommand # <<>> THEN <<input.cfg.partitionInfoCommand>>
     ELSE <<>>)
    \o <<Chars("sinfo -h -N -o \"%P|%n|%c|%m|%G\""), Chars("sinfo -h -o \"%P|%D|%c|%m|%G\"")>>
\* The executions so far follow that order, and an accepted candidate is the
\* last one executed.
CandidateOrder ==
    /\ Len(execLog) <= 3 /\ Len(execLog) <= Len(ExpectedCandidates)
    /\ \A i \in 1..Len(execLog) :
           /\ execLog[i].command = ExpectedCandidates[i]
           /\ execLog[i].accepted => i = Len(execLog) /\ pc = "returned"
FetchDone == input.fn = "fetchClusterInfo" /\ pc \in {"returned", "threw"}

\* C25: fetchClusterInfo executes the candidates one at a time in the order
\* custom command (skipped when empty), one-row-per-node command,
\* one-row-per-partition command; once a candidate is accepted no later one is
\* executed; the fetch always terminates, after at most three executions.
C25_CandidatesInOrder == [](input.fn = "fetchClusterInfo" => CandidateOrder) /\ <>FetchDone

\* The custom command and the per-node report were not accepted, the
\* per-partition report was.
C25_Witness ==
    /\ FetchDone
    /\ Len(execLog) = 3 /\ execLog[3].accepted
    /\ execLog[1].command = input.cfg.partitionInfoCommand

\* Every candidate executed and none was accepted.
NoneAccepted ==
    /\ input.fn = "fetchClusterInfo"
    /\ Len(execLog) = Len(FetchCommands(input.cfg))
    /\ \A i \in 1..Len(execLog) : execLog[i].ok /\ ~execLog[i].accepted

\* C26: if every candidate executed but none satisfied the acceptance rule,
\* fetchClusterInfo returns the parsed result of the last candidate, even when
\* that is empty or not meaningful, and raises no error.
C26_ReturnsLastParse ==
    NoneAccepted =>
        /\ pc \in {"loop", "returned"}
        /\ lastInfo = parsePartitionInfoOutput(execLog[Len(execLog)].output)
        /\ pc = "returned" => result = lastInfo

\* The last candidate's parse is returned although it has no CPUs, memory or
\* GPUs, the one before having been meaningful.
C26_Witness ==
    /\ NoneAccepted /\ pc = "returned"
    /\ result.partitions # <<>> /\ ~Meaningful(execLog[Len(execLog)].output)
    /\ Meaningful(execLog[Len(execLog) - 1].output)

(***************************************************************************)
(* Claims about connectCommand: login hosts and resource queries.          *)
(***************************************************************************)
\* resolveLoginHosts has returned.
Resolved(run) == run.pc \notin {"start", "queryHostPrompt", "discover", "manualHostPrompt"}
\* The run executed (or is executing) the discovery command.
DiscoveryRun(run) == run.pc = "discover" \/ run.queryHost # Undefined

\* C27: when a static login-host list is configured, resolveLoginHosts returns
\* that list and does not run the discovery command; discovery is run, and its
\* result used, only when no static list is configured.
C27_StaticListUsed ==
    ConnectRunning =>
        \A r \in DOMAIN runs :
            runs[r].cfg.loginHosts # <<>> =>
                /\ ~DiscoveryRun(runs[r])
                /\ Resolved(runs[r]) => runs[r].loginHosts = uniqueList(runs[r].cfg.loginHosts)

\* The run showed the warning of a failed discovery.
DiscoveryFailed(run) ==
    \E i \in EventsOf(run) :
        run.trace[i] = Ev("warning", "ResolveHosts", "Failed to query login hosts")
\* The run asked for a single manual host.
ManualHostAsked(run) ==
    \/ run.pc = "manualHostPrompt"
    \/ \E i \in EventsOf(run) : run.trace[i].kind = "prompt" /\ run.trace[i].at = "manualHost"

\* C28: if the discovery command fails, resolveLoginHosts does not abort or
\* raise: after the warning it continues with the static list, prompting for
\* a single manual host when that list is empty.
C28_DiscoveryFailureDegrades ==
    ConnectRunning =>
        \A r \in DOMAIN runs :
            LET run == runs[r] IN
            DiscoveryFailed(run) =>
                /\ run.trace[Len(run.trace)].kind = "warning" => ~Stopped(run)
                /\ run.cfg.loginHosts = <<>> <=> ManualHostAsked(run)
                /\ Resolved(run) /\ run.cfg.loginHosts # <<>> =>
                       run.loginHosts = uniqueList(run.cfg.loginHosts)
                /\ Stopped(run) /\ run.stop.at = "ResolveHosts" =>
                       run.trace[Len(run.trace) - 1] \in
                           {Ev("prompt", "manualHost", "dismissed"),
                            Ev("prompt", "manualHost", "empty")}

\* The discovery failed with a static list configured and the run went on to
\* write its overlay for the first host of that list.
C28_Witness ==
    /\ ConnectRunning
    /\ DiscoveryFailed(runs["first"])
    /\ runs["first"].cfg.loginHosts # <<>>
    /\ runs["first"].loginHost = runs["first"].cfg.loginHosts[1]
    /\ HasEvent(runs["first"], "write")

\* The run prompted for the login host.
HostPrompted(run) ==
    \/ run.pc \in {"pickHost", "enterHost"}
    \/ \E i \in EventsOf(run) :
           run.trace[i].kind = "prompt" /\ run.trace[i].at \in {"loginHost", "loginHostManual"}

\* C29: if host resolution yields an empty list, connectCommand terminates
\* with an error before selecting a host: no resource query is executed, no
\* overlay is written and the pointer is unchanged; exactly one host is
\* selected without prompting, and of several hosts a non-interactive run takes
\* the first.
C29_EmptyHostsAbort ==
    ConnectRunning =>
        \A r \in DOMAIN runs :
            LET run == runs[r] IN
            Resolved(run) =>
                /\ run.loginHosts = <<>> =>
                       /\ run.stop = [at |-> "ResolveHosts", cause |-> "error"]
                       /\ run.pc = "stopped"
                       /\ run.trace[Len(run.trace)] = Ev("error", "ResolveHosts", "showErrorMessage")
                       /\ run.loginHost = Undefined /\ ~HostPrompted(run)
                       /\ \A i \in EventsOf(run) :
                              run.trace[i].at \in {"queryHost", "manualHost", "ResolveHosts"}
                       /\ run.partitions = <<>> /\ run.items = <<>>
                       /\ ~HasEvent(run, "write") /\ ~HasEvent(run, "swap")
                       /\ files = input.files /\ settings = input.settings
                /\ Len(run.loginHosts) = 1 \/ (Len(run.loginHosts) > 1 /\ ~run.interactive) =>
                       run.loginHost = run.loginHosts[1] /\ ~HostPrompted(run)

\* No static list, the discovery failed and the manual host was not given.
C29_Witness ==
    /\ ConnectRunning
    /\ runs["first"].stop = [at |-> "ResolveHosts", cause |-> "error"]
    /\ DiscoveryFailed(runs["first"])
    /\ ManualHostAsked(runs["first"])

\* The warnings of the failed partition, QoS and account queries.
QueryWarnings == {Ev("warning", "QueryResources", "Failed to query partitions"),
                  Ev("warning", "SelectQos", "Failed to query resources"),
                  Ev("warning", "SelectAccount", "Failed to query resources")}

\* C30: in interactive mode a failure of the partition query, the QoS query or
\* the account query degrades that list to empty with a warning and the flow
\* continues to the following step; no such failure terminates the flow.
C30_QueryFailureDegrades ==
    ConnectRunning =>
        \A r \in DOMAIN runs :
            LET run == runs[r] IN
            \A i \in EventsOf(run) :
                run.trace[i] \in QueryWarnings /\ i = Len(run.trace) =>
                    /\ run.interactive
                    /\ ~Stopped(run)
                    /\ run.trace[i].at = "QueryResources" =>
                           run.pc = "pickPartition" /\ run.partitions = <<>>
                    /\ run.trace[i].at = "SelectQos" =>
                           /\ run.pc \in {"queryAccount", "pickAccount", "promptNodes"}
                           /\ run.qos = Undefined
                    /\ run.trace[i].at = "SelectAccount" =>
                           run.pc = "promptNodes" /\ run.account = Undefined /\ run.items = <<>>

\* The partition query and the QoS query failed and the run went on to its end.
C30_Witness ==
    /\ ConnectRunning
    /\ runs["first"].pc = "done"
    /\ \E i, j \in EventsOf(runs["first"]) :
           /\ runs["first"].trace[i] = Ev("warning", "QueryResources", "Failed to query partitions")
           /\ runs["first"].trace[j] = Ev("warning", "SelectQos", "Failed to query resources")

(***************************************************************************)
(* Claims about connectCommand: what reaches the launch command.           *)
(***************************************************************************)
\* The elements of a sequence.
Range(seq) == {seq[i] : i \in 1..Len(seq)}
\* pickPartition was called.
PartitionAsked(run) ==
    \/ run.pc = "pickPartition"
    \/ \E i \in EventsOf(run) : run.trace[i].kind = "prompt" /\ run.trace[i].at = "partition"
\* The launch command carries the run's partition, or no partition flag when
\* that is unset.
PartitionFlag(run) ==
    IF run.partition = Undefined THEN ~Includes(run.remoteCommand, Chars("--partition="))
    ELSE Includes(run.remoteCommand,
                  Chars(" --salloc-arg=--partition=") \o run.partition \o Chars(" --salloc-arg=--nodes="))

\* C31: the partition passed to the launch-command builder is, in interactive
\* mode, unset when 'Use cluster default' is chosen and the chosen name when a
\* partition is chosen, the default offered being the configured default
\* partition when set and else the cluster-reported one; in non-interactive
\* mode it is the configured default partition when non-empty and else unset.
C31_PartitionPassed ==
    ConnectRunning =>
        \A r \in DOMAIN runs :
            LET run == runs[r] IN
            /\ run.interactive /\ PartitionAsked(run) =>
                   run.offered = (IF run.cfg.defaultPartition # <<>>
                                  THEN run.cfg.defaultPartition ELSE run.defaultPartition)
            /\ run.interactive /\ run.picked = Chars("Use cluster default") =>
                   run.partition = Undefined
            /\ run.interactive /\ run.picked \notin {Undefined, Chars("Use cluster default")} =>
                   run.partition = run.picked /\ run.picked \in Range(run.partitions)
            /\ ~run.interactive /\ PastSizing(run) =>
                   run.partition = (IF run.cfg.defaultPartition # <<>>
                                    THEN run.cfg.defaultPartition ELSE Undefined)
            /\ run.remoteCommand # <<>> => PartitionFlag(run)

\* 'Use cluster default' chosen although a default partition is configured
\* and another one reported: the launch command has no partition flag.
C31_Witness ==
    /\ ConnectRunning
    /\ runs["first"].picked = Chars("Use cluster default")
    /\ runs["first"].cfg.defaultPartition = Chars("cpu")
    /\ runs["first"].defaultPartition = Chars("gpu")
    /\ runs["first"].offered = Chars("cpu")
    /\ HasEvent(runs["first"], "write")

\* The text ends with the given tail.
HasTail(text, tail) ==
    Len(tail) <= Len(text) /\ SubSeq(text, Len(text) - Len(tail) + 1, Len(text)) = tail

\* The memory and GPU flags, which follow --time when qos and account are
\* unset.
SizingTail(cfg) ==
    (IF cfg.defaultMemoryMb > 0
     THEN Chars(" --salloc-arg=--mem=") \o ToStr(cfg.defaultMemoryMb) ELSE <<>>)
    \o (IF cfg.defaultGpuCount > 0
        THEN Chars(" --salloc-arg=--gres=gpu:")
             \o (IF Trim(cfg.defaultGpuType) # <<>>
                 THEN Trim(cfg.defaultGpuType) \o <<":">> ELSE <<>>)
             \o ToStr(cfg.defaultGpuCount)
        ELSE <<>>)

\* C32: in non-interactive mode no partition, QoS or account query is
\* executed, qos and account are unset in the launch command, and no
\* session-specific extra arguments are added: only the configured default
\* extra arguments follow the resource flags.
C32_NonInteractiveQuiet ==
    ConnectRunning =>
        \A r \in DOMAIN runs :
            LET run == runs[r] IN
            ~run.interactive =>
                /\ run.pc \notin {"queryPartitions", "pickPartition", "queryQos", "pickQos",
                                  "queryAccount", "pickAccount", "promptExtra"}
                /\ \A i \in EventsOf(run) : run.trace[i] \notin QueryWarnings
                /\ run.partitions = <<>> /\ run.items = <<>>
                /\ run.qos = Undefined /\ run.account = Undefined /\ run.extraArgs = <<>>
                /\ run.remoteCommand # <<>> =>
                       /\ ~Includes(run.remoteCommand, Chars("--qos="))
                       /\ ~Includes(run.remoteCommand, Chars("--account="))
                       /\ HasTail(run.remoteCommand,
                                  Chars(" --salloc-arg=--time=") \o run.time
                                  \o SizingTail(run.cfg)
                                  \o Join([k \in 1..Len(run.cfg.extraSallocArgs) |->
                                              Chars(" --salloc-arg=")
                                              \o run.cfg.extraSallocArgs[k]], <<>>))

\* A non-interactive run with the extra-arguments prompt enabled wrote its
\* overlay.
C32_Witness ==
    /\ ConnectRunning
    /\ ~runs["first"].interactive
    /\ runs["first"].cfg.promptForExtraSallocArgs
    /\ HasEvent(runs["first"], "write")

(***************************************************************************)
(* Claims about buildSallocArgs and buildRemoteCommand.                    *)
(***************************************************************************)
SallocDone == pc = "done" /\ input.fn = "buildSallocArgs"
\* The flag names in the order of the claim.
FlagOrder == <<Chars("--partition"), Chars("--nodes"), Chars("--ntasks-per-node"),
               Chars("--cpus-per-task"), Chars("--time"), Chars("--qos"),
               Chars("--account"), Chars("--mem"), Chars("--gres")>>
\* The name of a flag "--name=value" and its value.
FlagName(arg) == SubSeq(arg, 1, (CHOOSE i \in 1..Len(arg) :
                                    arg[i] = "=" /\ \A j \in 1..(i - 1) : arg[j] # "=") - 1)
FlagValue(arg) == SubSeq(arg, Len(FlagName(arg)) + 2, Len(arg))
FlagRank(arg) == CHOOSE k \in 1..Len(FlagOrder) : FlagOrder[k] = FlagName(arg)
\* The values emitted for a flag name.
FlagValues(args, name) ==
    {FlagValue(args[i]) : i \in {j \in 1..Len(args) : FlagName(args[j]) = Chars(name)}}
\* The flag is emitted exactly once, with this value.
Once(args, name, value) ==
    /\ Cardinality({j \in 1..Len(args) : FlagName(args[j]) = Chars(name)}) = 1
    /\ FlagValues(args, name) = {value}
\* The flag is emitted once with this value when cond holds, else not at all.
OnlyIf(args, cond, name, value) ==
    IF cond THEN Once(args, name, value) ELSE FlagValues(args, name) = {}

\* C33: buildSallocArgs emits its flags in the order partition (only if set),
\* nodes, ntasks-per-node, cpus-per-task, time, qos (only if set), account
\* (only if set), mem (only if > 0), gres (only if gpuCount > 0, as
\* gpu:<type>:<count> when the type is non-empty, else gpu:<count>); nodes,
\* ntasks-per-node, cpus-per-task and time are present exactly once.
C33_SallocFlagOrder ==
    SallocDone =>
        /\ \A i \in 1..Len(result) :
               /\ \E k \in 1..Len(FlagOrder) : FlagOrder[k] = FlagName(result[i])
               /\ i > 1 => FlagRank(result[i - 1]) < FlagRank(result[i])
        /\ Once(result, "--nodes", ToStr(input.nodes))
        /\ Once(result, "--ntasks-per-node", ToStr(input.tasksPerNode))
        /\ Once(result, "--cpus-per-task", ToStr(input.cpusPerTask))
        /\ Once(result, "--time", input.time)
        /\ OnlyIf(result, input.partition \notin {Undefined, <<>>}, "--partition", input.partition)
        /\ OnlyIf(result, input.qos \notin {Undefined, <<>>}, "--qos", input.qos)
        /\ OnlyIf(result, input.account \notin {Undefined, <<>>}, "--account", input.account)
        /\ OnlyIf(result, input.memoryMb > 0, "--mem", ToStr(input.memoryMb))
        /\ OnlyIf(result, input.gpuCount > 0, "--gres",
                  IF input.gpuType \in {Undefined, <<>>, Chars(" ")}
                  THEN Chars("gpu:") \o ToStr(input.gpuCount)
                  ELSE Chars("gpu:") \o input.gpuType \o Chars(":") \o ToStr(input.gpuCount))

\* All nine flags emitted.
C33_Witness ==
    /\ SallocDone
    /\ Len(result) = 9
    /\ result[9] = Chars("--gres=gpu:a100:2")
    /\ result[1] = Chars("--partition=gpu")

\* The resource flags of the run, in builder order.
ResourceFlags(run) ==
    buildSallocArgs([partition |-> run.partition, nodes |-> run.nodes,
                     tasksPerNode |-> run.tasksPerNode, cpusPerTask |-> run.cpusPerTask,
                     time |-> run.time, memoryMb |-> run.cfg.defaultMemoryMb,
                     gpuType |-> run.cfg.defaultGpuType, gpuCount |-> run.cfg.defaultGpuCount,
                     qos |-> run.qos, account |-> run.account])
\* Each argument as a pass-through token of the proxy.
Wrapped(args) == [k \in 1..Len(args) |-> Chars("--salloc-arg=") \o args[k]]
\* The words of the claim, in its order, joined by single spaces after the
\* module-load prefix.
ComposedCommand(run) ==
    (IF run.cfg.moduleLoad # <<>> THEN run.cfg.moduleLoad \o Chars(" && ") ELSE <<>>)
    \o Join(SelectSeq(<<run.cfg.proxyCommand>> \o run.cfg.proxyArgs, LAMBDA w : w # <<>>)
            \o Wrapped(ResourceFlags(run))
            \o Wrapped(run.cfg.extraSallocArgs)
            \o Wrapped(run.extraArgs),
            <<" ">>)

\* C34: the composed remote command is, in order, the optional module-load
\* prefix, the proxy command and its configured arguments, one wrapped
\* pass-through token (--salloc-arg=<flag>) per resource flag in builder
\* order, the configured default extra arguments, then the session-specific
\* extra arguments.
C34_RemoteCommandOrder ==
    ConnectRunning =>
        \A r \in DOMAIN runs :
            runs[r].remoteCommand # <<>> =>
                /\ runs[r].remoteCommand = ComposedCommand(runs[r])
                /\ HasEvent(runs[r], "write") =>
                       HasLine(files[runs[r].tempConfigPath],
                               Chars("  RemoteCommand ") \o ComposedCommand(runs[r]))

\* A written command with the prefix, proxy arguments, default and session
\* extra arguments.
C34_Witness ==
    /\ ConnectRunning
    /\ HasEvent(runs["first"], "write")
    /\ runs["first"].remoteCommand =
           Chars("module load anaconda3 && python vscode-shell-proxy.py --verbose --port=0")
           \o Chars(" --salloc-arg=--partition=gpu --salloc-arg=--nodes=2")
           \o Chars(" --salloc-arg=--ntasks-per-node=1 --salloc-arg=--cpus-per-task=1")
           \o Chars(" --salloc-arg=--time=02:00:00 --salloc-arg=--mem=64000")
           \o Chars(" --salloc-arg=--gres=gpu:2 --salloc-arg=--exclusive")
           \o Chars(" --salloc-arg=--gres=gpu:1 --salloc-arg=--mem=32G")

(***************************************************************************)
(* Claims about buildHostEntry.                                            *)
(***************************************************************************)
EntryBuilt == pc \in {"write", "done", "failed"} /\ input.fn = "writeTemporarySshConfig"
\* The directive lines of a host entry: all but the leading comment and the
\* empty text after the final line break.
DirectiveLines(entry) ==
    LET lines == SplitLines(entry) IN SubSeq(lines, 2, Len(lines) - 1)
\* The directive names, in the order rendered.
DirectiveNames(entry) ==
    [k \in 1..Len(DirectiveLines(entry)) |-> SplitWhitespace(DirectiveLines(entry)[k])[1]]
\* The names seq holds exactly the option keys with a non-empty value, in
\* ascending order.
IsSortedOptionKeys(seq, options) ==
    /\ Range(seq) = {key \in DOMAIN options : options[key] # <<>>}
    /\ \A i \in 1..(Len(seq) - 1) : CodeLess(seq[i], seq[i + 1])

\* C35: buildHostEntry renders the directives in the order Host, HostName,
\* User, RequestTTY, ForwardAgent, IdentityFile, RemoteCommand, then the
\* additional options sorted ascending by key; User and IdentityFile are
\* omitted when empty, RequestTTY and ForwardAgent unless enabled, additional
\* options with an empty value are omitted, and Host, HostName and
\* RemoteCommand are always present.
C35_DirectiveOrder ==
    EntryBuilt =>
        LET names == DirectiveNames(result.hostEntry)
            fixed == <<Chars("Host"), Chars("HostName")>>
                     \o (IF input.cfg.user # <<>> THEN <<Chars("User")>> ELSE <<>>)
                     \o (IF input.cfg.requestTTY THEN <<Chars("RequestTTY")>> ELSE <<>>)
                     \o (IF input.cfg.forwardAgent THEN <<Chars("ForwardAgent")>> ELSE <<>>)
                     \o (IF input.cfg.identityFile # <<>> THEN <<Chars("IdentityFile")>>
                         ELSE <<>>)
                     \o <<Chars("RemoteCommand")>>
        IN /\ Len(names) >= Len(fixed)
           /\ SubSeq(names, 1, Len(fixed)) = fixed
           /\ IsSortedOptionKeys(SubSeq(names, Len(fixed) + 1, Len(names)),
                                 input.cfg.additionalSshOptions)
           /\ HasLine(result.hostEntry, Chars("Host ") \o input.alias)
           /\ HasLine(result.hostEntry, Chars("  HostName ") \o input.loginHost)
           /\ HasLine(result.hostEntry, Chars("  RemoteCommand ") \o input.remoteCommand)

\* Only the three mandatory directives and two of three additional options.
C35_Witness ==
    /\ EntryBuilt
    /\ DirectiveNames(result.hostEntry) =
           <<Chars("Host"), Chars("HostName"), Chars("RemoteCommand"),
             Chars("Compression"), Chars("ServerAliveInterval")>>
    /\ Chars("LogLevel") \in DOMAIN input.cfg.additionalSshOptions

(***************************************************************************)
(* handleClusterInfoRequest and the cluster-info cache.                    *)
(***************************************************************************)
MaxRequests == 2    \* 'getClusterInfo' messages handled one after the other

\* parseListInput: split(/[\s,]+/), trimmed, empty items dropped.
parseListInput(in) ==
    SplitWhitespace([i \in 1..Len(in) |-> IF in[i] = "," THEN " " ELSE in[i]])

\* new Date().toISOString() while the n-th request is handled.
FetchedAt(n) == Chars("2024-05-01T10:0") \o ToStr(n) \o Chars(":00.000Z")

\* cacheClusterInfo dropping the entries of the other hosts.
cacheClusterInfoFresh(store, host, info, now) ==
    [h \in {host} |-> [info |-> info, fetchedAt |-> now]]

\* cacheClusterInfo: the stored record with the host's entry set.
cacheClusterInfo(store, host, info, now) ==
    [h \in (DOMAIN store) \cup {host} |->
        IF h = host THEN [info |-> info, fetchedAt |-> now] ELSE store[h]]

\* What the view sends as values.loginHosts.
LoginHostInputs == {<<>>, Chars(" , "), Chars("login1.example.com"),
                    Chars("login2.example.com, login1.example.com")}
\* What fetchClusterInfo may resolve with.
FetchedInfos == {parsePartitionInfoOutput(Trim(output)) :
                    output \in {Chars(""), Chars("gpu|n1|64|128000|gpu:a100:4\n")}}
\* An entry cached in an earlier session.
OldEntry == [info |-> parsePartitionInfoOutput(Chars("cpu|1|32|64000|(null)")),
             fetchedAt |-> Chars("2024-04-30T09:00:00.000Z")]
InitialCaches == {<<>>,
                  [h \in {Login1} |-> OldEntry],
                  [h \in {Login1, Login2} |-> OldEntry]}

InitCache ==
    /\ pc = "idle"
    /\ input = [fn |-> "handleClusterInfoRequest", loginHosts |-> <<>>, at |-> 0]
    /\ result = NoResult
    /\ cache \in InitialCaches
    /\ FetchIdle
    /\ FilesIdle
    /\ ConnectIdle

RequestRunning == input.fn = "handleClusterInfoRequest" /\ pc = "fetching"

\* A 'getClusterInfo' message arrives: handleClusterInfoRequest up to its
\* await (lines 507-522).
HandleClusterInfoRequest ==
    /\ pc = "idle" /\ input.fn = "handleClusterInfoRequest"
    /\ input.at < MaxRequests
    /\ \E text \in LoginHostInputs :
        /\ input' = [input EXCEPT !.loginHosts = text, !.at = @ + 1]
        /\ IF Len(parseListInput(text)) = 0
           THEN /\ result' = [kind |-> "clusterInfoError", host |-> <<>>, info |-> NoResult]
                /\ pc' = "idle"
           ELSE /\ result' = NoResult
                /\ pc' = "fetching"
    /\ UNCHANGED <<cmdIdx, lastInfo, execLog, files, runs, settings, cache>>

\* fetchClusterInfo resolved: the entry is cached and posted (lines 523-525).
FetchResolves ==
    /\ RequestRunning
    /\ \E info \in FetchedInfos :
        LET loginHost == parseListInput(input.loginHosts)[1]
        IN /\ cache' = cacheClusterInfo(cache, loginHost, info, FetchedAt(input.at))
           /\ result' = [kind |-> "clusterInfo", host |-> loginHost, info |-> info]
    /\ pc' = "idle"
    /\ UNCHANGED <<input, cmdIdx, lastInfo, execLog, files, runs, settings>>

\* fetchClusterInfo rejected: the catch of lines 526-530.
FetchRejects ==
    /\ RequestRunning
    /\ result' = [kind |-> "clusterInfoError", host |-> parseListInput(input.loginHosts)[1],
                  info |-> NoResult]
    /\ pc' = "idle"
    /\ UNCHANGED <<input, cmdIdx, lastInfo, execLog, files, runs, settings, cache>>

NextCache ==
    \/ HandleClusterInfoRequest
    \/ FetchResolves
    \/ FetchRejects

SpecCache == InitCache /\ [][NextCache]_vars

\* C36: handleClusterInfoRequest writes the cache entry of a host only after
\* fetchClusterInfo returned successfully for that host; a failed fetch leaves
\* the whole cache unchanged, and a successful fetch for host h replaces only
\* the entry of h (the fetched ClusterInfo and the fetch timestamp), every
\* other host's entry staying as it was.
C36_CacheWrittenOnSuccess ==
    [][input.fn = "handleClusterInfoRequest" =>
         /\ cache' # cache => pc = "fetching" /\ result'.kind = "clusterInfo"
         /\ result'.kind = "clusterInfoError" => cache' = cache
         /\ pc = "fetching" /\ result'.kind = "clusterInfo" =>
                LET h == SplitWhitespace([i \in 1..Len(input.loginHosts) |->
                             IF input.loginHosts[i] = "," THEN " "
                             ELSE input.loginHosts[i]])[1]
                IN /\ result'.host = h
                   /\ DOMAIN cache' = (DOMAIN cache) \cup {h}
                   /\ cache'[h].info = result'.info
                   /\ cache'[h].fetchedAt \notin {cache[g].fetchedAt : g \in DOMAIN cache}
                   /\ \A g \in (DOMAIN cache) \ {h} : cache'[g] = cache[g]]_vars

\* The entry of one host was replaced next to the older entry of another.
C36_Witness ==
    /\ input.fn = "handleClusterInfoRequest" /\ pc = "idle"
    /\ result.kind = "clusterInfo" /\ result.host = Login2
    /\ DOMAIN cache = {Login1, Login2}
    /\ cache[Login2].info = result.info
    /\ cache[Login1].fetchedAt # cache[Login2].fetchedAt
    /\ cache[Login1].fetchedAt # Chars("2024-04-30T09:00:00.000Z")

(***************************************************************************)
(* Claims about parsePartitionInfoOutput: the cluster default, the CPU     *)
(* capacity of a row, partition names and the GPU summary.                 *)
(***************************************************************************)
RECURSIVE Flatten(_)
Flatten(seqs) == IF seqs = <<>> THEN <<>> ELSE Head(seqs) \o Flatten(Tail(seqs))

\* The name entries of a report in report order: line by line, and within a
\* comma-separated name list from left to right.
NameEntries(output) ==
    LET rows == ParsedRows(output)
    IN Flatten([i \in 1..Len(rows) |-> PartitionNames(rows[i][1])])

FlaggedEntries(output) ==
    SelectSeq(NameEntries(output), LAMBDA entry : Includes(entry, <<"*">>))

\* C37: the defaultPartition of the result is the cleaned name of the first
\* '*'-flagged name entry in report order; later flagged entries never override
\* it; it is absent when no entry is flagged.
C37_FirstFlaggedDefault ==
    ParseDone =>
        LET flagged == FlaggedEntries(input.output)
        IN result.defaultPartition =
               IF flagged = <<>> THEN Undefined ELSE StripStars(flagged[1])

\* The segment of a CPU field after its last '/', the whole field without one.
AfterLastSlash(field) ==
    LET slashes == {i \in 1..Len(field) : field[i] = "/"}
    IN IF slashes = {} THEN field
       ELSE SubSeq(field, SetMax(slashes) + 1, Len(field))

\* The integer written by the first contiguous run of decimal digits, or 0.
FirstInteger(text) ==
    LET digits == {i \in 1..Len(text) : text[i] \in Digits}
    IN IF digits = {} THEN 0
       ELSE LET a == CHOOSE i \in digits : \A j \in digits : i <= j
                ends == {k \in a..Len(text) : \A j \in a..k : j \in digits}
            IN ToNum(SubSeq(text, a, SetMax(ends)))

\* C38: the CPU capacity of a row is the first integer of the segment after the
\* last '/' of its CPU field, or of the whole field when it has no '/'; the
\* integer is the first contiguous run of digits, 0 when there is none.  A
\* partition takes the largest capacity of its rows.
C38_CpuCapacity ==
    ParseDone =>
        LET rows == ParsedRows(input.output) IN
        /\ \A i \in 1..Len(rows) :
               RowValues(rows[i]).cpus = FirstInteger(AfterLastSlash(FieldAt(rows[i], 3)))
        /\ \A k \in 1..Len(result.partitions) :
               result.partitions[k].cpus =
                   SetMax({FirstInteger(AfterLastSlash(FieldAt(rows[i], 3))) :
                              i \in RowsFor(rows, result.partitions[k].name)})

\* A CPU field 16/0/0/48 gives 48 and a CPU field n/a gives 0.
C38_Witness ==
    /\ ParseDone
    /\ input.output = Chars("cpu,gpu*|n1|16/0/0/48|256000M|(null)\nbig|2|n/a|512|")
    /\ Len(result.partitions) = 3
    /\ result.partitions[1].name = Chars("big")
    /\ result.partitions[1].cpus = 0
    /\ result.partitions[2].cpus = 48
    /\ result.partitions[3].cpus = 48

\* C39: every partition record of the result has a non-empty name.
C39_NamesNonEmpty ==
    ParseDone => \A k \in 1..Len(result.partitions) : result.partitions[k].name # <<>>

(***************************************************************************)
(* Specification of a call of either parser.                               *)
(***************************************************************************)
InitParsers == InitGres \/ InitParse

NextParsers ==
    \/ CallParseGresInfo
    \/ CallParsePartitionInfoOutput

SpecParsers == InitParsers /\ [][NextParsers]_vars

\* gpuMax is the largest value of gpuTypes, 0 exactly when gpuTypes is empty,
\* and every value of gpuTypes is positive.
GpuSummaryConsistent(g) ==
    /\ \A t \in DOMAIN g.gpuTypes : g.gpuTypes[t] > 0
    /\ g.gpuMax = SetMax({g.gpuTypes[t] : t \in DOMAIN g.gpuTypes})
    /\ (g.gpuMax = 0 <=> DOMAIN g.gpuTypes = {})

\* C40: in every result of parseGresInfo and in every partition record of
\* parsePartitionInfoOutput, gpuMax equals the maximum value in gpuTypes (0
\* exactly when gpuTypes is empty) and every value stored in gpuTypes is > 0.
C40_GpuSummary ==
    /\ GresDone => GpuSummaryConsistent(result)
    /\ ParseDone =>
           \A k \in 1..Len(result.partitions) : GpuSummaryConsistent(result.partitions[k])

\* A partition merged from rows with different types and different counts of
\* one type.
C40_Witness ==
    /\ ParseDone
    /\ input.output = Chars("gpu|n1|32|64000|gpu:a100:2,gpu:2\ngpu*|2gpu-01|64|128000|gpu:a100:4")
    /\ Len(result.partitions) = 1
    /\ result.partitions[1].gpuMax = 4
    /\ result.partitions[1].gpuTypes[Chars("a100")] = 4
    /\ result.partitions[1].gpuTypes[<<>>] = 2

====
